---------------------------- MODULE Spec2Model ----------------------------
(***************************************************************************)
(* Model of the YAML-driven API scenario tester (src/src/api_tester.py).   *)
(*                                                                         *)
(* Python values are tagged records [t, v]:                                *)
(*   none, bool, int, str (a sequence of tokens), list (a sequence of      *)
(*   values), dict (a function from key strings to values).                *)
(* A string is a sequence of tokens.  A token is a run of letters (one     *)
(* word), a single digit, or a single punctuation character; the regular   *)
(* expressions of the program are matched token by token.                  *)
(***************************************************************************)
EXTENDS Integers, Sequences, FiniteSets, TLC

VARIABLES
    scenario,            \* the scenario dict handed to the runner
    runner,              \* the function running: a runner, or the function applied
    idx,                 \* enumerate(steps, start=1): index of the next step
    responses_list,      \* RuntimeContext: responses in execution order
    responses_by_index,  \* RuntimeContext: 1-based step index -> response
    responses_by_name,   \* RuntimeContext: step name (and "last") -> response
    calls,               \* the calls of execute_api_call made so far
    outcomes,            \* per executed step: what happened to it
    report,              \* run_scenario_collect: report["steps"]
    result,              \* the runner's return value, NoResult while running
    fnIn,                \* input of the pure function under check
    fnOut                \* its output, None before it is applied

vars == <<scenario, runner, idx, responses_list, responses_by_index,
          responses_by_name, calls, outcomes, report, result, fnIn, fnOut>>

---------------------------------------------------------------------------
(* Python values *)

None == [t |-> "none", v |-> 0]
B(b) == [t |-> "bool", v |-> b]
I(n) == [t |-> "int", v |-> n]
S(toks) == [t |-> "str", v |-> toks]
L(seq) == [t |-> "list", v |-> seq]
D(f) == [t |-> "dict", v |-> f]

EmptyDict == D(<<>>)

\* bool(x)
Truthy(x) ==
    CASE x.t = "none" -> FALSE
      [] x.t = "bool" -> x.v
      [] x.t = "int" -> x.v # 0
      [] x.t = "str" -> Len(x.v) > 0
      [] x.t = "list" -> Len(x.v) > 0
      [] x.t = "dict" -> DOMAIN x.v # {}

\* d.get(key, default) on a dict value
Get(d, key, default) == IF key \in DOMAIN d.v THEN d.v[key] ELSE default

\* a or b
Or(a, b) == IF Truthy(a) THEN a ELSE b

\* x is None
IsNone(x) == x.t = "none"

\* the number a bool or an int stands for
NumOf(x) == IF x.t = "bool" THEN (IF x.v THEN 1 ELSE 0) ELSE x.v

\* Python ==: bool is an int (True == 1), otherwise structural equality
RECURSIVE PyEq(_, _)
PyEq(a, b) ==
    IF a.t \in {"bool", "int"} /\ b.t \in {"bool", "int"} THEN NumOf(a) = NumOf(b)
    ELSE IF a.t # b.t THEN FALSE
    ELSE CASE a.t = "none" -> TRUE
           [] a.t = "str" -> a.v = b.v
           [] a.t = "list" ->
                /\ Len(a.v) = Len(b.v)
                /\ \A i \in 1..Len(a.v) : PyEq(a.v[i], b.v[i])
           [] a.t = "dict" ->
                /\ DOMAIN a.v = DOMAIN b.v
                /\ \A k \in DOMAIN a.v : PyEq(a.v[k], b.v[k])

\* the same value of the same type
RECURSIVE Same(_, _)
Same(a, b) ==
    /\ a.t = b.t
    /\ CASE a.t = "none" -> TRUE
         [] a.t \in {"bool", "int", "str"} -> a.v = b.v
         [] a.t = "list" ->
              /\ Len(a.v) = Len(b.v)
              /\ \A i \in 1..Len(a.v) : Same(a.v[i], b.v[i])
         [] a.t = "dict" ->
              /\ DOMAIN a.v = DOMAIN b.v
              /\ \A k \in DOMAIN a.v : Same(a.v[k], b.v[k])
         [] a.t = "resp" -> a.v.id = b.v.id

---------------------------------------------------------------------------
(* Tokens and integer <-> text conversion *)

Digits == <<"0", "1", "2", "3", "4", "5", "6", "7", "8", "9">>

IsDigit(tok) == \E i \in 1..10 : Digits[i] = tok

DigitVal(tok) == (CHOOSE i \in 1..10 : Digits[i] = tok) - 1

\* the word-character tokens of [A-Za-z0-9_]: every token that is not punctuation
Punct == {"$", "[", "]", ".", "(", ")", "/", "-", "+", " ", "=", ",", "*", "'", ":", "{", "}"}

IsWordTok(tok) == tok \notin Punct

RECURSIVE NatToStr(_)
NatToStr(n) ==
    IF n < 10 THEN <<Digits[n + 1]>>
    ELSE NatToStr(n \div 10) \o <<Digits[(n % 10) + 1]>>

\* str(n) for an int
IntToStr(n) == IF n < 0 THEN <<"-">> \o NatToStr(-n) ELSE NatToStr(n)

RECURSIVE DigitsToNat(_, _)
DigitsToNat(toks, acc) ==
    IF toks = <<>> THEN acc
    ELSE DigitsToNat(Tail(toks), 10 * acc + DigitVal(Head(toks)))

RECURSIVE StripLeft(_)
StripLeft(toks) ==
    IF toks # <<>> /\ Head(toks) = " " THEN StripLeft(Tail(toks)) ELSE toks

RECURSIVE StripRight(_)
StripRight(toks) ==
    IF toks # <<>> /\ toks[Len(toks)] = " "
    THEN StripRight(SubSeq(toks, 1, Len(toks) - 1)) ELSE toks

\* int(ref): surrounding blanks and one sign are accepted; anything else raises
ParseInt(toks) ==
    LET s == StripRight(StripLeft(toks))
        signed == s # <<>> /\ Head(s) \in {"+", "-"}
        digs == IF signed THEN Tail(s) ELSE s
    IN  IF digs # <<>> /\ \A i \in 1..Len(digs) : IsDigit(digs[i])
        THEN [ok |-> TRUE,
              val |-> IF signed /\ Head(s) = "-" THEN 0 - DigitsToNat(digs, 0)
                      ELSE DigitsToNat(digs, 0)]
        ELSE [ok |-> FALSE, val |-> 0]

---------------------------------------------------------------------------
(* The Response abstraction of the transport collaborator *)

\* a requests.Response: id stands for the object's identity
Resp(id, status, text, json) ==
    [t |-> "resp",
     v |-> [id |-> id, status_code |-> status, text |-> text, json |-> json]]

\* response.json() succeeded with val / raised ValueError
JsonOk(val) == [ok |-> TRUE, val |-> val]
JsonErr == [ok |-> FALSE, val |-> None]

\* truth value of an object as the program's `if resp` / `if not resp` reads it:
\* a Response is true iff its status is not a 4xx/5xx error (Response.ok)
IsTrue(x) ==
    IF x.t = "resp" THEN ~(400 <= x.v.status_code /\ x.v.status_code < 600)
    ELSE Truthy(x)

\* _extract_json: the parsed body, None when the body is not JSON
ExtractJson(resp) == IF resp.v.json.ok THEN resp.v.json.val ELSE None

---------------------------------------------------------------------------
(* JSONPath: jsonpath_parse(path) and expr.find(body) *)

RECURSIVE ParseSelectors(_)
ParseSelectors(toks) ==
    IF toks = <<>> THEN [ok |-> TRUE, sel |-> <<>>]
    ELSE IF Len(toks) >= 2 /\ toks[1] = "." /\ IsWordTok(toks[2]) /\ ~IsDigit(toks[2])
    THEN LET rest == ParseSelectors(SubSeq(toks, 3, Len(toks)))
         IN  [ok |-> rest.ok,
              sel |-> <<[k |-> "field", n |-> toks[2]]>> \o rest.sel]
    ELSE IF Len(toks) >= 3 /\ toks[1] = "[" /\ toks[2] = "*" /\ toks[3] = "]"
    THEN LET rest == ParseSelectors(SubSeq(toks, 4, Len(toks)))
         IN  [ok |-> rest.ok,
              sel |-> <<[k |-> "star", n |-> ""]>> \o rest.sel]
    ELSE [ok |-> FALSE, sel |-> <<>>]

\* jsonpath_parse(path): ok = FALSE stands for the exception it raises
JsonpathParse(path) ==
    IF path.t = "str" /\ path.v # <<>> /\ Head(path.v) = "$"
    THEN ParseSelectors(Tail(path.v))
    ELSE [ok |-> FALSE, sel |-> <<>>]

RECURSIVE Flatten(_)
Flatten(seqs) == IF seqs = <<>> THEN <<>> ELSE Head(seqs) \o Flatten(Tail(seqs))

\* one selector applied to one datum
FindOne(sel, m) ==
    IF sel.k = "field"
    THEN (IF m.t = "dict" /\ sel.n \in DOMAIN m.v THEN <<m.v[sel.n]>> ELSE <<>>)
    ELSE (IF m.t = "list" THEN m.v
          ELSE IF m.t \in {"dict", "int", "bool", "str"} /\ Truthy(m) THEN <<m>>
          ELSE <<>>)

RECURSIVE FindAll(_, _)
FindAll(sels, ms) ==
    IF sels = <<>> THEN ms
    ELSE FindAll(Tail(sels),
                 Flatten([i \in 1..Len(ms) |-> FindOne(Head(sels), ms[i])]))

\* [m.value for m in expr.find(body)]
JsonpathFind(sels, body) == FindAll(sels, <<body>>)

---------------------------------------------------------------------------
(* Response references: $resp[<ref>].status / .text / .jsonpath(<path>) *)

\* dict[key] = value
Put(f, key, value) ==
    [x \in DOMAIN f \cup {key} |-> IF x = key THEN value ELSE f[x]]

\* the first index >= from whose token is tok, 0 when there is none
IndexFrom(s, tok, from) ==
    IF \E j \in from..Len(s) : s[j] = tok
    THEN CHOOSE j \in from..Len(s) :
            s[j] = tok /\ \A k \in from..(j - 1) : s[k] # tok
    ELSE 0

TokAt(s, i) == IF i >= 1 /\ i <= Len(s) THEN s[i] ELSE ""

NoMatch == [ok |-> FALSE, ref |-> <<>>, path |-> <<>>, end |-> 0]

\* _RESP_STATUS_RE / _RESP_TEXT_RE matched at position i; word is "status" or
\* "text"; end is the position after the match
MatchRespAt(s, i, word) ==
    LET close == IndexFrom(s, "]", i + 3)
    IN  IF /\ TokAt(s, i) = "$" /\ TokAt(s, i + 1) = "resp" /\ TokAt(s, i + 2) = "["
           /\ close > i + 3
           /\ TokAt(s, close + 1) = "." /\ TokAt(s, close + 2) = word
        THEN [ok |-> TRUE, ref |-> SubSeq(s, i + 3, close - 1), path |-> <<>>,
              end |-> close + 3]
        ELSE NoMatch

\* _RESP_JSONPATH_RE matched at position i
MatchJsonpathAt(s, i) ==
    LET head == MatchRespAt(s, i, "jsonpath")
        paren == IndexFrom(s, ")", head.end + 1)
    IN  IF head.ok /\ TokAt(s, head.end) = "(" /\ paren > head.end + 1
        THEN [ok |-> TRUE, ref |-> head.ref,
              path |-> SubSeq(s, head.end + 1, paren - 1), end |-> paren + 1]
        ELSE NoMatch

\* the three storages of the response context
Ctx(by_name, by_index, list) == [by_name |-> by_name, by_index |-> by_index, list |-> list]

\* ResolveRespRef that looks the name up before it tries the index
ResolveRespRefNameFirst(ref, ctx) ==
    IF ref = <<"last">>
    THEN (IF ctx.list # <<>> THEN ctx.list[Len(ctx.list)] ELSE None)
    ELSE IF ref \in DOMAIN ctx.by_name THEN ctx.by_name[ref]
    ELSE IF ParseInt(ref).ok /\ ParseInt(ref).val \in DOMAIN ctx.by_index
    THEN ctx.by_index[ParseInt(ref).val]
    ELSE None

\* _resolve_resp_ref: the response ref designates, None when there is none
ResolveRespRef(ref, ctx) ==
    IF ref = <<"last">>
    THEN (IF ctx.list # <<>> THEN ctx.list[Len(ctx.list)] ELSE None)
    ELSE IF ParseInt(ref).ok
    THEN (IF ParseInt(ref).val \in DOMAIN ctx.by_index
          THEN ctx.by_index[ParseInt(ref).val] ELSE None)
    ELSE (IF ref \in DOMAIN ctx.by_name THEN ctx.by_name[ref] ELSE None)

---------------------------------------------------------------------------
(* str() of a value, as the inline replacements render it *)

RECURSIVE JoinWith(_, _)
JoinWith(parts, sep) ==
    IF parts = <<>> THEN <<>>
    ELSE IF Len(parts) = 1 THEN parts[1]
    ELSE parts[1] \o sep \o JoinWith(Tail(parts), sep)

\* the keys of a dict in a fixed order
RECURSIVE KeySeq(_)
KeySeq(keys) ==
    IF keys = {} THEN <<>>
    ELSE LET k == CHOOSE x \in keys : TRUE IN <<k>> \o KeySeq(keys \ {k})

RECURSIVE PyRepr(_)
PyRepr(x) ==
    CASE x.t = "none" -> <<"None">>
      [] x.t = "bool" -> IF x.v THEN <<"True">> ELSE <<"False">>
      [] x.t = "int" -> IntToStr(x.v)
      [] x.t = "str" -> <<"'">> \o x.v \o <<"'">>
      [] x.t = "list" ->
           <<"[">> \o JoinWith([i \in 1..Len(x.v) |-> PyRepr(x.v[i])], <<",", " ">>)
                   \o <<"]">>
      [] x.t = "dict" ->
           LET ks == KeySeq(DOMAIN x.v)
           IN  <<"{">> \o JoinWith([i \in 1..Len(ks) |->
                              <<"'", ks[i], "'", ":", " ">> \o PyRepr(x.v[ks[i]])],
                            <<",", " ">>)
                       \o <<"}">>

\* str(x)
PyStr(x) == IF x.t = "str" THEN x.v ELSE PyRepr(x)

---------------------------------------------------------------------------
(* _substitute_response_placeholders *)

\* the matches of a jsonpath reference, <<>> when the reference does not resolve
\* (no response, false response, body not JSON, invalid path, no match)
RefMatches(ref, path, ctx) ==
    LET resp == ResolveRespRef(ref, ctx)
        body == ExtractJson(resp)
        expr == JsonpathParse(S(path))
    IN  IF ~IsTrue(resp) THEN <<>>
        ELSE IF IsNone(body) THEN <<>>
        ELSE IF ~expr.ok THEN <<>>
        ELSE JsonpathFind(expr.sel, body)

\* _RESP_JSONPATH_RE.sub(_repl_jsonpath, s), scanning from position i
RECURSIVE SubJsonpath(_, _, _)
SubJsonpath(s, i, ctx) ==
    IF i > Len(s) THEN <<>>
    ELSE LET m == MatchJsonpathAt(s, i)
             matches == RefMatches(m.ref, m.path, ctx)
         IN  IF ~m.ok THEN <<s[i]>> \o SubJsonpath(s, i + 1, ctx)
             ELSE (IF Len(matches) = 0 THEN SubSeq(s, i, m.end - 1)
                   ELSE JoinWith([k \in 1..Len(matches) |-> PyStr(matches[k])], <<",">>))
                  \o SubJsonpath(s, m.end, ctx)

\* _RESP_STATUS_RE.sub(lambda ...), scanning from position i
RECURSIVE SubStatus(_, _, _)
SubStatus(s, i, ctx) ==
    IF i > Len(s) THEN <<>>
    ELSE LET m == MatchRespAt(s, i, "status")
             resp == ResolveRespRef(m.ref, ctx)
         IN  IF ~m.ok THEN <<s[i]>> \o SubStatus(s, i + 1, ctx)
             ELSE (IF IsTrue(resp) THEN IntToStr(resp.v.status_code)
                   ELSE SubSeq(s, i, m.end - 1))
                  \o SubStatus(s, m.end, ctx)

\* SubText that drops a reference it cannot resolve
RECURSIVE SubTextDropsUnresolved(_, _, _)
SubTextDropsUnresolved(s, i, ctx) ==
    IF i > Len(s) THEN <<>>
    ELSE LET m == MatchRespAt(s, i, "text")
             resp == ResolveRespRef(m.ref, ctx)
         IN  IF ~m.ok THEN <<s[i]>> \o SubTextDropsUnresolved(s, i + 1, ctx)
             ELSE (IF IsTrue(resp) THEN resp.v.text ELSE <<>>)
                  \o SubTextDropsUnresolved(s, m.end, ctx)

\* _RESP_TEXT_RE.sub(lambda ...), scanning from position i
RECURSIVE SubText(_, _, _)
SubText(s, i, ctx) ==
    IF i > Len(s) THEN <<>>
    ELSE LET m == MatchRespAt(s, i, "text")
             resp == ResolveRespRef(m.ref, ctx)
         IN  IF ~m.ok THEN <<s[i]>> \o SubText(s, i + 1, ctx)
             ELSE (IF IsTrue(resp) THEN resp.v.text
                   ELSE SubSeq(s, i, m.end - 1))
                  \o SubText(s, m.end, ctx)

FullMatch(m, s) == m.ok /\ m.end = Len(s) + 1

\* SubstituteStr that returns the list of matches also when there is one match
SubstituteStrAlwaysList(obj, ctx) ==
    LET s == obj.v
        m_j == MatchJsonpathAt(s, 1)
        m_s == MatchRespAt(s, 1, "status")
        m_t == MatchRespAt(s, 1, "text")
        matches == RefMatches(m_j.ref, m_j.path, ctx)
        resp_s == ResolveRespRef(m_s.ref, ctx)
        resp_t == ResolveRespRef(m_t.ref, ctx)
    IN  IF FullMatch(m_j, s)
        THEN (IF Len(matches) = 0 THEN obj ELSE L(matches))
        ELSE IF FullMatch(m_s, s)
        THEN (IF IsTrue(resp_s) THEN I(resp_s.v.status_code) ELSE obj)
        ELSE IF FullMatch(m_t, s)
        THEN (IF IsTrue(resp_t) THEN S(resp_t.v.text) ELSE obj)
        ELSE S(SubText(SubStatus(SubJsonpath(s, 1, ctx), 1, ctx), 1, ctx))

\* the string case of _substitute_response_placeholders
SubstituteStr(obj, ctx) ==
    LET s == obj.v
        m_j == MatchJsonpathAt(s, 1)
        m_s == MatchRespAt(s, 1, "status")
        m_t == MatchRespAt(s, 1, "text")
        matches == RefMatches(m_j.ref, m_j.path, ctx)
        resp_s == ResolveRespRef(m_s.ref, ctx)
        resp_t == ResolveRespRef(m_t.ref, ctx)
    IN  IF FullMatch(m_j, s)
        THEN (IF Len(matches) = 0 THEN obj
              ELSE IF Len(matches) = 1 THEN matches[1]
              ELSE L(matches))
        ELSE IF FullMatch(m_s, s)
        THEN (IF IsTrue(resp_s) THEN I(resp_s.v.status_code) ELSE obj)
        ELSE IF FullMatch(m_t, s)
        THEN (IF IsTrue(resp_t) THEN S(resp_t.v.text) ELSE obj)
        ELSE S(SubText(SubStatus(SubJsonpath(s, 1, ctx), 1, ctx), 1, ctx))

RECURSIVE SubstituteResponsePlaceholders(_, _)
SubstituteResponsePlaceholders(obj, ctx) ==
    CASE obj.t = "dict" ->
           D([k \in DOMAIN obj.v |-> SubstituteResponsePlaceholders(obj.v[k], ctx)])
      [] obj.t = "list" ->
           L([i \in 1..Len(obj.v) |-> SubstituteResponsePlaceholders(obj.v[i], ctx)])
      [] obj.t = "str" -> SubstituteStr(obj, ctx)
      [] OTHER -> obj

---------------------------------------------------------------------------
(* verify_response *)

\* a formatted message: the f-string of the source and the values it interpolates
Msg(template, path, expected, actual) ==
    [template |-> template, path |-> path, expected |-> expected, actual |-> actual]

\* the None of (True, None)
NoErr == Msg("None", None, None, None)

Pass == [ok |-> TRUE, err |-> NoErr]
Fail(msg) == [ok |-> FALSE, err |-> msg]

\* expected in m, for a list m
InList(expected, m) == \E i \in 1..Len(m.v) : PyEq(m.v[i], expected)

\* expected in m.values() or expected in m.keys(), for a dict m
InDict(expected, m) ==
    \/ \E k \in DOMAIN m.v : PyEq(m.v[k], expected)
    \/ \E k \in DOMAIN m.v : PyEq(S(<<k>>), expected)

\* the contains test of one matched value
ContainsOne(m, expected) ==
    IF m.t = "list" THEN InList(expected, m)
    ELSE IF m.t = "dict" THEN InDict(expected, m)
    ELSE PyEq(m, expected)

\* CheckExists that reads exists: false as exists: true
CheckExistsIgnoresFalse(assertion, path, matches) ==
    IF Len(matches) = 0
    THEN Fail(Msg("JSON path '{path}' not found (expected to exist)", path, None, None))
    ELSE Pass

\* "exists" in assertion: the exists branch
CheckExists(assertion, path, matches) ==
    LET want == Truthy(assertion.v["exists"])
    IN  IF want /\ Len(matches) = 0
        THEN Fail(Msg("JSON path '{path}' not found (expected to exist)", path, None, None))
        ELSE IF ~want /\ Len(matches) > 0
        THEN Fail(Msg("JSON path '{path}' expected to be absent but found {matches!r}",
                      path, None, L(matches)))
        ELSE Pass

\* assertion.get("not_null") is true: the not_null branch
CheckNotNull(assertion, path, matches) ==
    IF Len(matches) = 0
    THEN Fail(Msg("JSON path '{path}' not found (not_null asserted)", path, None, None))
    ELSE IF \E i \in 1..Len(matches) : IsNone(matches[i])
    THEN Fail(Msg("JSON path '{path}' contains null value(s): {matches!r}",
                  path, None, L(matches)))
    ELSE Pass

\* a value that cannot be hashed: `x in m.keys()` raises TypeError on it
Unhashable(x) == x.t \in {"list", "dict"}

\* the loop over the matches reaches, before any match that contains expected,
\* a dict whose values do not hold expected and whose keys cannot be tested
ContainsRaises(matches, expected) ==
    /\ Unhashable(expected)
    /\ \E i \in 1..Len(matches) :
         /\ matches[i].t = "dict"
         /\ ~\E k \in DOMAIN matches[i].v : PyEq(matches[i].v[k], expected)
         /\ \A j \in 1..(i - 1) : ~ContainsOne(matches[j], expected)

\* the TypeError that leaves verify_response through its caller
RaisedTypeError(expected) == Fail(Msg("TypeError: unhashable type", None, expected, None))

\* "contains" in assertion: the contains branch
CheckContains(assertion, path, matches) ==
    LET expected == assertion.v["contains"]
    IN  IF Len(matches) = 0
        THEN Fail(Msg("JSON path '{path}' not found (contains asserted)", path, None, None))
        ELSE IF ContainsRaises(matches, expected)
        THEN RaisedTypeError(expected)
        ELSE IF ~\E i \in 1..Len(matches) : ContainsOne(matches[i], expected)
        THEN Fail(Msg("JSON path '{path}' does not contain {expected!r}; values: {matches!r}",
                      path, expected, L(matches)))
        ELSE Pass

\* CheckExpectedValue that wants every match to equal the expected value
CheckExpectedValueAllMatch(assertion, path, matches) ==
    LET expected == assertion.v["expected_value"]
    IN  IF Len(matches) = 0
        THEN Fail(Msg("JSON path '{path}' not found", path, None, None))
        ELSE IF \E i \in 1..Len(matches) : ~PyEq(matches[i], expected)
        THEN Fail(Msg("JSON path '{path}' expected {expected!r} but got {matches!r}",
                      path, expected, L(matches)))
        ELSE Pass

\* "expected_value" in assertion: the expected_value branch
CheckExpectedValue(assertion, path, matches) ==
    LET expected == assertion.v["expected_value"]
    IN  IF Len(matches) = 0
        THEN Fail(Msg("JSON path '{path}' not found", path, None, None))
        ELSE IF ~\E i \in 1..Len(matches) : PyEq(matches[i], expected)
        THEN Fail(Msg("JSON path '{path}' expected {expected!r} but got {matches!r}",
                      path, expected, L(matches)))
        ELSE Pass

\* default: require presence
CheckPresence(path, matches) ==
    IF Len(matches) = 0
    THEN Fail(Msg("JSON path '{path}' not found", path, None, None))
    ELSE Pass

\* Directive with the contains branch tried before the not_null branch
DirectiveContainsFirst(assertion) ==
    IF "exists" \in DOMAIN assertion.v THEN "exists"
    ELSE IF "contains" \in DOMAIN assertion.v THEN "contains"
    ELSE IF Truthy(Get(assertion, "not_null", None)) THEN "not_null"
    ELSE IF "expected_value" \in DOMAIN assertion.v THEN "expected_value"
    ELSE "default"

\* which branch of the cascade handles the assertion
Directive(assertion) ==
    IF "exists" \in DOMAIN assertion.v THEN "exists"
    ELSE IF Truthy(Get(assertion, "not_null", None)) THEN "not_null"
    ELSE IF "contains" \in DOMAIN assertion.v THEN "contains"
    ELSE IF "expected_value" \in DOMAIN assertion.v THEN "expected_value"
    ELSE "default"

\* the directive cascade of one assertion, on the matches of its path
CheckDirectives(assertion, path, matches) ==
    CASE Directive(assertion) = "exists" -> CheckExists(assertion, path, matches)
      [] Directive(assertion) = "not_null" -> CheckNotNull(assertion, path, matches)
      [] Directive(assertion) = "contains" -> CheckContains(assertion, path, matches)
      [] Directive(assertion) = "expected_value" ->
           CheckExpectedValue(assertion, path, matches)
      [] OTHER -> CheckPresence(path, matches)

\* one iteration of `for assertion in json_assertions`: Pass stands for continue
CheckAssertion(assertion, body) ==
    LET path == Get(assertion, "path", None)
        expr == JsonpathParse(path)
    IN  IF ~Truthy(path)
        THEN Fail(Msg("Invalid assertion: missing 'path'", None, None, None))
        ELSE IF ~expr.ok
        THEN Fail(Msg("Invalid JSONPath '{path}': {e}", path, None, None))
        ELSE CheckDirectives(assertion, path, JsonpathFind(expr.sel, body))

\* the loop over the assertions from position i: returns at the first failure
RECURSIVE CheckAssertionsFrom(_, _, _)
CheckAssertionsFrom(assertions, i, body) ==
    IF i > Len(assertions) THEN Pass
    ELSE IF ~CheckAssertion(assertions[i], body).ok
    THEN CheckAssertion(assertions[i], body)
    ELSE CheckAssertionsFrom(assertions, i + 1, body)

\* the status check
CheckStatus(response, expected_status) ==
    IF ~IsNone(expected_status) /\ ~PyEq(I(response.v.status_code), expected_status)
    THEN Fail(Msg("Status Code mismatch: expected {expected_status}, got {response.status_code}",
                  None, expected_status, I(response.v.status_code)))
    ELSE Pass

\* json_assertions or []
AssertionsOf(verification) == Or(Get(verification, "json_assertions", None), L(<<>>)).v

\* VerifyResponse with the assertions checked before the status
VerifyResponseAssertionsFirst(response, step) ==
    LET verification == Get(step, "verification", EmptyDict)
        expected_status == Get(verification, "status_code", None)
        json_assertions == AssertionsOf(verification)
        body == ExtractJson(response)
    IN  IF Len(json_assertions) > 0 /\ IsNone(body)
        THEN Fail(Msg("Response body is not valid JSON but json_assertions were provided",
                      None, None, None))
        ELSE IF Len(json_assertions) > 0 /\ ~CheckAssertionsFrom(json_assertions, 1, body).ok
        THEN CheckAssertionsFrom(json_assertions, 1, body)
        ELSE CheckStatus(response, expected_status)

\* verify_response(response, step): (ok, err)
VerifyResponse(response, step) ==
    LET verification == Get(step, "verification", EmptyDict)
        expected_status == Get(verification, "status_code", None)
        json_assertions == AssertionsOf(verification)
        body == ExtractJson(response)
    IN  IF ~CheckStatus(response, expected_status).ok
        THEN CheckStatus(response, expected_status)
        ELSE IF Len(json_assertions) = 0 THEN Pass
        ELSE IF IsNone(body)
        THEN Fail(Msg("Response body is not valid JSON but json_assertions were provided",
                      None, None, None))
        ELSE CheckAssertionsFrom(json_assertions, 1, body)

---------------------------------------------------------------------------
(* $var placeholders of the runtime dict, and captures *)

RECURSIVE Concat(_)
Concat(toks) == IF toks = <<>> THEN "" ELSE Head(toks) \o Concat(Tail(toks))

\* the position after the run of word tokens that starts at i
RECURSIVE WordRunEnd(_, _)
WordRunEnd(s, i) ==
    IF i <= Len(s) /\ IsWordTok(s[i]) THEN WordRunEnd(s, i + 1) ELSE i

\* _RUNTIME_PLACEHOLDER_RE / _SIMPLE_PLACEHOLDER_RE matched at position i
MatchPlaceholderAt(s, i) ==
    IF TokAt(s, i) = "$" /\ WordRunEnd(s, i + 1) > i + 1
    THEN [ok |-> TRUE, key |-> Concat(SubSeq(s, i + 1, WordRunEnd(s, i + 1) - 1)),
          end |-> WordRunEnd(s, i + 1)]
    ELSE [ok |-> FALSE, key |-> "", end |-> 0]

\* the number of matches of the placeholder pattern from position i
RECURSIVE CountPlaceholders(_, _)
CountPlaceholders(s, i) ==
    IF i > Len(s) THEN 0
    ELSE IF MatchPlaceholderAt(s, i).ok
    THEN 1 + CountPlaceholders(s, MatchPlaceholderAt(s, i).end)
    ELSE CountPlaceholders(s, i + 1)

\* _RUNTIME_PLACEHOLDER_RE.sub(_repl, s): str(runtime.get(key, m.group(0)))
RECURSIVE SubRuntime(_, _, _)
SubRuntime(s, i, runtime) ==
    IF i > Len(s) THEN <<>>
    ELSE LET m == MatchPlaceholderAt(s, i)
         IN  IF ~m.ok THEN <<s[i]>> \o SubRuntime(s, i + 1, runtime)
             ELSE (IF m.key \in DOMAIN runtime.v THEN PyStr(runtime.v[m.key])
                   ELSE SubSeq(s, i, m.end - 1))
                  \o SubRuntime(s, m.end, runtime)

\* the string case of _substitute_with_runtime
SubstituteRuntimeStr(obj, runtime) ==
    LET s == obj.v
        m == MatchPlaceholderAt(s, 1)
    IN  IF ~Truthy(runtime) THEN obj
        ELSE IF CountPlaceholders(s, 1) = 0 THEN obj
        ELSE IF CountPlaceholders(s, 1) = 1 /\ m.ok /\ m.end = Len(s) + 1
        THEN (IF m.key \in DOMAIN runtime.v THEN runtime.v[m.key] ELSE obj)
        ELSE S(SubRuntime(s, 1, runtime))

RECURSIVE SubstituteWithRuntime(_, _)
SubstituteWithRuntime(obj, runtime) ==
    CASE obj.t = "dict" ->
           D([k \in DOMAIN obj.v |-> SubstituteWithRuntime(obj.v[k], runtime)])
      [] obj.t = "list" ->
           L([i \in 1..Len(obj.v) |-> SubstituteWithRuntime(obj.v[i], runtime)])
      [] obj.t = "str" -> SubstituteRuntimeStr(obj, runtime)
      [] OTHER -> obj

\* _SIMPLE_PLACEHOLDER_RE.sub(_repl, s): str(cfg[key]) for a key of cfg, the
\* match itself otherwise
RECURSIVE SubStatic(_, _, _)
SubStatic(s, i, cfg) ==
    IF i > Len(s) THEN <<>>
    ELSE LET m == MatchPlaceholderAt(s, i)
         IN  IF ~m.ok THEN <<s[i]>> \o SubStatic(s, i + 1, cfg)
             ELSE (IF Truthy(cfg) /\ m.key \in DOMAIN cfg.v THEN PyStr(cfg.v[m.key])
                   ELSE SubSeq(s, i, m.end - 1))
                  \o SubStatic(s, m.end, cfg)

\* SubstituteInStr that puts the string form of the value for an exact placeholder
SubstituteInStrStringifies(obj, cfg) ==
    IF CountPlaceholders(obj.v, 1) = 0 THEN obj ELSE S(SubStatic(obj.v, 1, cfg))

\* the string case of _substitute_in_obj
SubstituteInStr(obj, cfg) ==
    LET s == obj.v
        m == MatchPlaceholderAt(s, 1)
    IN  IF CountPlaceholders(s, 1) = 0 THEN obj
        ELSE IF CountPlaceholders(s, 1) = 1 /\ m.ok /\ m.end = Len(s) + 1
        THEN (IF Truthy(cfg) /\ m.key \in DOMAIN cfg.v THEN cfg.v[m.key] ELSE obj)
        ELSE S(SubStatic(s, 1, cfg))

RECURSIVE SubstituteInObj(_, _)
SubstituteInObj(obj, cfg) ==
    CASE obj.t = "dict" ->
           D([k \in DOMAIN obj.v |-> SubstituteInObj(obj.v[k], cfg)])
      [] obj.t = "list" ->
           L([i \in 1..Len(obj.v) |-> SubstituteInObj(obj.v[i], cfg)])
      [] obj.t = "str" -> SubstituteInStr(obj, cfg)
      [] OTHER -> obj

\* load_scenarios on the parsed document: raised stands for the ValueError
LoadScenarios(parsed, config) ==
    IF ~Truthy(Or(parsed, EmptyDict)) \/ "scenarios" \notin DOMAIN Or(parsed, EmptyDict).v
    THEN [raised |-> TRUE, data |-> None]
    ELSE IF Truthy(config)
    THEN [raised |-> FALSE, data |-> SubstituteInObj(Or(parsed, EmptyDict), config)]
    ELSE [raised |-> FALSE, data |-> Or(parsed, EmptyDict)]

\* str.lower() on the capture sources the model uses
Lower(toks) ==
    IF toks = <<"STATUS">> \/ toks = <<"Status">> THEN <<"status">>
    ELSE IF toks = <<"JSON">> THEN <<"json">>
    ELSE toks

\* _capture_from_response for the sources "status" and "json":
\* (ok, (name, value)) or (False, (name, error))
CaptureFromResponse(resp, capture_spec) ==
    LET name == Get(capture_spec, "name", None)
        source == Lower(Or(Get(capture_spec, "source", None), S(<<"json">>)).v)
        body == ExtractJson(resp)
        path == Get(capture_spec, "path", None)
        expr == JsonpathParse(path)
        matches == JsonpathFind(expr.sel, body)
        failed == [ok |-> FALSE, name |-> name, value |-> None]
    IN  IF ~Truthy(name) THEN [ok |-> FALSE, name |-> None, value |-> None]
        ELSE IF source = <<"status">>
        THEN [ok |-> TRUE, name |-> name, value |-> I(resp.v.status_code)]
        ELSE IF IsNone(body) THEN failed
        ELSE IF ~Truthy(path) THEN failed
        ELSE IF ~expr.ok THEN failed
        ELSE IF Len(matches) = 0 THEN failed
        ELSE [ok |-> TRUE, name |-> name,
              value |-> IF Len(matches) = 1 THEN matches[1] ELSE L(matches)]

---------------------------------------------------------------------------
(* execute_api_call *)

\* str.upper() on the method names the model uses
Upper(toks) ==
    IF toks = <<"get">> \/ toks = <<"Get">> THEN <<"GET">>
    ELSE IF toks = <<"post">> THEN <<"POST">>
    ELSE toks

\* what the transport does with one request: raise exc, or answer with a
\* response of this status, text and parsed body
Raises(exc) == [raise |-> TRUE, exc |-> exc, status |-> 0, text |-> <<>>, json |-> JsonErr]
Answers(status, text, json) ==
    [raise |-> FALSE, exc |-> "", status |-> status, text |-> text, json |-> json]

\* the arguments of s.request(method, url, **kwargs)
Request(method, url, action) ==
    [method |-> method, url |-> url,
     has_json |-> ~IsNone(Get(action, "body", None)),
     json |-> Get(action, "body", None),
     headers |-> Or(Get(action, "headers", None), EmptyDict),
     params |-> Get(action, "params", None),
     timeout |-> Get(action, "timeout", I(30))]

NoRequest == Request(<<>>, None, EmptyDict)

\* execute_api_call that sends the method as it is written
ExecuteApiCallKeepsCase(step, transport, id) ==
    LET action == Get(step, "action", EmptyDict)
        method == Or(Get(action, "method", None), S(<<"GET">>)).v
        url == Get(action, "url", None)
    IN  IF ~Truthy(url)
        THEN [raised |-> TRUE, exc |-> "Missing URL in action", sent |-> FALSE,
              request |-> NoRequest, resp |-> None]
        ELSE IF transport.raise
        THEN [raised |-> TRUE, exc |-> transport.exc, sent |-> TRUE,
              request |-> Request(method, url, action), resp |-> None]
        ELSE [raised |-> FALSE, exc |-> "", sent |-> TRUE,
              request |-> Request(method, url, action),
              resp |-> Resp(id, transport.status, transport.text, transport.json)]

\* execute_api_call(step): raises before anything is sent when the url is
\* missing, otherwise sends one request and returns or raises as the transport does
ExecuteApiCall(step, transport, id) ==
    LET action == Get(step, "action", EmptyDict)
        method == Upper(Or(Get(action, "method", None), S(<<"GET">>)).v)
        url == Get(action, "url", None)
    IN  IF ~Truthy(url)
        THEN [raised |-> TRUE, exc |-> "Missing URL in action", sent |-> FALSE,
              request |-> NoRequest, resp |-> None]
        ELSE IF transport.raise
        THEN [raised |-> TRUE, exc |-> transport.exc, sent |-> TRUE,
              request |-> Request(method, url, action), resp |-> None]
        ELSE [raised |-> FALSE, exc |-> "", sent |-> TRUE,
              request |-> Request(method, url, action),
              resp |-> Resp(id, transport.status, transport.text, transport.json)]

---------------------------------------------------------------------------
(* The scenarios and transport behaviours the runs are checked on *)

\* the longest scenario
MaxSteps == 2

RefStatus(ref) == <<"$", "resp", "[">> \o ref \o <<"]", ".", "status">>
RefText(ref) == <<"$", "resp", "[">> \o ref \o <<"]", ".", "text">>
RefJsonpath(ref, path) ==
    <<"$", "resp", "[">> \o ref \o <<"]", ".", "jsonpath", "(">> \o path \o <<")">>

PathDataId == <<"$", ".", "data", ".", "id">>

StepLogin ==
    D([name |-> S(<<"login">>),
       action |-> D([method |-> S(<<"post">>), url |-> S(<<"/", "a">>),
                     body |-> D([user |-> S(<<"u">>)])]),
       verification |-> D([status_code |-> I(200)]),
       capture |-> L(<<D([name |-> S(<<"X">>), path |-> S(PathDataId)])>>)])

StepLoginAgain ==
    D([name |-> S(<<"login">>), action |-> D([url |-> S(<<"/", "b">>)])])

StepLast ==
    D([name |-> S(<<"last">>), action |-> D([url |-> S(<<"/", "c">>)]),
       verification |-> D([status_code |-> I(404)])])

StepOne ==
    D([name |-> S(<<"1">>),
       action |-> D([url |-> S(<<"/", "d">>),
                     params |-> D([code |-> S(RefStatus(<<"1">>))])])])

StepInline ==
    D([action |-> D([url |-> S(<<"/", "s", "=">> \o RefStatus(<<"last">>))])])

StepUseX ==
    D([action |-> D([url |-> S(<<"/", "u", "/", "$", "X">>),
                     body |-> D([id |-> S(<<"$", "X">>)])]),
       verification |-> D([json_assertions |->
           L(<<D([path |-> S(PathDataId), expected_value |-> I(7)])>>)])])

StepNoUrl ==
    D([name |-> S(<<"nourl">>), action |-> D([method |-> S(<<"get">>)])])

StepJsonpath ==
    D([action |-> D([url |-> S(RefJsonpath(<<"login">>, PathDataId))]),
       verification |-> D([status_code |-> S(RefStatus(<<"login">>))])])

StepPool == <<StepLogin, StepLoginAgain, StepLast, StepOne, StepInline, StepUseX,
              StepNoUrl, StepJsonpath>>

RECURSIVE SeqsUpTo(_, _)
SeqsUpTo(pool, n) ==
    IF n = 0 THEN {<<>>}
    ELSE LET shorter == SeqsUpTo(pool, n - 1)
         IN  shorter \cup {Append(q, x) : q \in shorter, x \in pool}

ScenarioName == S(<<"scenario">>)

\* the scenario whose steps are the steps of the pool at the positions q
ScenarioOf(q) ==
    D([name |-> ScenarioName, steps |-> L([i \in 1..Len(q) |-> StepPool[q[i]]])])

\* the scenarios with steps: null and with no steps key
ScenarioNullSteps == D([name |-> ScenarioName, steps |-> None])
ScenarioNoSteps == D([name |-> ScenarioName])

BodyDataId == D([data |-> D([id |-> I(7)])])
BodyMsg == D([msg |-> S(<<"bad">>)])

Transports ==
    <<Raises("connection refused"),
      Answers(200, <<"{", "data", ":", "{", "id", ":", "7", "}", "}">>, JsonOk(BodyDataId)),
      Answers(404, <<"{", "msg", ":", "bad", "}">>, JsonOk(BodyMsg)),
      Answers(200, <<"pong">>, JsonErr)>>

---------------------------------------------------------------------------
(* run_scenario and run_scenario_collect *)

NoResult == [done |-> FALSE, ok |-> FALSE,
             info |-> [step_index |-> 0, step_name |-> <<>>, error |-> NoErr,
                       has_response |-> FALSE, status_code |-> 0]]

\* (True, None)
Success == [done |-> TRUE, ok |-> TRUE, info |-> NoResult.info]

\* (False, {"step_index", "step_name", "error"})
Failure(step_index, step_name, error) ==
    [done |-> TRUE, ok |-> FALSE,
     info |-> [step_index |-> step_index, step_name |-> step_name, error |-> error,
               has_response |-> FALSE, status_code |-> 0]]

\* (False, {"step_index", "step_name", "error", "response"})
FailureWithResponse(step_index, step_name, error, resp) ==
    [done |-> TRUE, ok |-> FALSE,
     info |-> [step_index |-> step_index, step_name |-> step_name, error |-> error,
               has_response |-> TRUE, status_code |-> resp.v.status_code]]

\* scenario.get("steps", []) or []
StepsOf(scen) == Or(Get(scen, "steps", L(<<>>)), L(<<>>)).v

\* step.get("name", f"step-{idx}")
StepName(step, i) == Get(step, "name", S(<<"step", "-">> \o IntToStr(i))).v

\* run_scenario: the error of a transport failure
RequestFailedError(exc) == Msg("Request failed: {e}", None, None, S(<<exc>>))

\* run_scenario_collect: the error of a transport failure in the returned info
CollectRequestFailedError(exc) == Msg("{exc}", None, None, S(<<exc>>))

\* run_scenario_collect: step_record["error"] of a transport failure
RecordRequestFailedError(exc) ==
    Msg("Request failed: {exc}\n{traceback.format_exc()}", None, None, S(<<exc>>))

CurrentCtx == Ctx(responses_by_name, responses_by_index, responses_list)

\* the step about to run, with the placeholders of earlier responses resolved
StepToRun == SubstituteResponsePlaceholders(StepsOf(scenario)[idx], CurrentCtx)

\* StoreResponse that sets "last" only when the key is not there yet
StoreResponseStaleLast(step_name, resp) ==
    /\ responses_list' = Append(responses_list, resp)
    /\ responses_by_index' = Put(responses_by_index, idx, resp)
    /\ responses_by_name' =
         IF <<"last">> \in DOMAIN responses_by_name
         THEN Put(responses_by_name, step_name, resp)
         ELSE Put(Put(responses_by_name, step_name, resp), <<"last">>, resp)

\* responses_list.append(resp) and the stores by index, by name and under "last"
StoreResponse(step_name, resp) ==
    /\ responses_list' = Append(responses_list, resp)
    /\ responses_by_index' = Put(responses_by_index, idx, resp)
    /\ responses_by_name' = Put(Put(responses_by_name, step_name, resp), <<"last">>, resp)

\* the entry of calls for one call of execute_api_call
CallEntry(call) == [index |-> idx, sent |-> call.sent, request |-> call.request]

\* RunScenarioAfterCall with the return after a failed verification left out
RunScenarioAfterCallNoStop(step_name, call, ver) ==
    /\ calls' = Append(calls, CallEntry(call))
    /\ IF call.raised
       THEN /\ result' = Failure(idx, step_name, RequestFailedError(call.exc))
            /\ outcomes' = Append(outcomes, "raised")
            /\ UNCHANGED <<idx, responses_list, responses_by_index, responses_by_name>>
       ELSE /\ StoreResponse(step_name, call.resp)
            /\ idx' = idx + 1
            /\ outcomes' = Append(outcomes, IF ver.ok THEN "passed" ELSE "failed")
            /\ UNCHANGED result
    /\ UNCHANGED report

\* run_scenario from the return of execute_api_call (call) to the end of the
\* iteration; ver is verify_response(resp, step_to_run)
RunScenarioAfterCall(step_name, call, ver) ==
    /\ calls' = Append(calls, CallEntry(call))
    /\ IF call.raised
       THEN /\ result' = Failure(idx, step_name, RequestFailedError(call.exc))
            /\ outcomes' = Append(outcomes, "raised")
            /\ UNCHANGED <<idx, responses_list, responses_by_index, responses_by_name>>
       ELSE /\ StoreResponse(step_name, call.resp)
            /\ IF ver.ok
               THEN /\ idx' = idx + 1
                    /\ outcomes' = Append(outcomes, "passed")
                    /\ UNCHANGED result
               ELSE /\ result' = FailureWithResponse(idx, step_name, ver.err, call.resp)
                    /\ outcomes' = Append(outcomes, "failed")
                    /\ UNCHANGED idx
    /\ UNCHANGED report

\* run_scenario from the call of execute_api_call on the resolved step
RunScenarioCall(step_name, step_to_run, call) ==
    RunScenarioAfterCall(step_name, call, VerifyResponse(call.resp, step_to_run))

\* one iteration of the loop of run_scenario
RunScenarioIter ==
    /\ runner = "run_scenario"
    /\ ~result.done
    /\ idx <= Len(StepsOf(scenario))
    /\ \E t \in 1..Len(Transports) :
         RunScenarioCall(StepName(StepsOf(scenario)[idx], idx), StepToRun,
                         ExecuteApiCall(StepToRun, Transports[t], Len(calls) + 1))
    /\ UNCHANGED <<scenario, runner, fnIn, fnOut>>

\* the return True, None that ends run_scenario
RunScenarioReturn ==
    /\ runner = "run_scenario"
    /\ ~result.done
    /\ idx > Len(StepsOf(scenario))
    /\ result' = Success
    /\ UNCHANGED <<scenario, runner, idx, responses_list, responses_by_index,
                   responses_by_name, calls, outcomes, report, fnIn, fnOut>>

\* step_record["request"]
RequestSnapshot(action) ==
    [method |-> Upper(Or(Get(action, "method", None), S(<<"GET">>)).v),
     url |-> Get(action, "url", None),
     headers |-> Get(action, "headers", None),
     params |-> Get(action, "params", None),
     body |-> Get(action, "body", None),
     timeout |-> Get(action, "timeout", None)]

\* step_record of a step whose request raised
RecordOfRaise(step_name, step_to_run, call) ==
    [index |-> idx, name |-> step_name,
     request |-> RequestSnapshot(Get(step_to_run, "action", EmptyDict)),
     has_response |-> FALSE, status_code |-> 0, json |-> None,
     has_verification |-> FALSE, verification |-> Pass,
     error |-> RecordRequestFailedError(call.exc)]

\* RecordOfAnswer that leaves the verification outcome out
RecordOfAnswerNoVerification(step_name, step_to_run, call, ver) ==
    [index |-> idx, name |-> step_name,
     request |-> RequestSnapshot(Get(step_to_run, "action", EmptyDict)),
     has_response |-> TRUE, status_code |-> call.resp.v.status_code,
     json |-> ExtractJson(call.resp),
     has_verification |-> FALSE, verification |-> Pass,
     error |-> NoErr]

\* step_record of a step whose request was answered
RecordOfAnswer(step_name, step_to_run, call, ver) ==
    [index |-> idx, name |-> step_name,
     request |-> RequestSnapshot(Get(step_to_run, "action", EmptyDict)),
     has_response |-> TRUE, status_code |-> call.resp.v.status_code,
     json |-> ExtractJson(call.resp),
     has_verification |-> TRUE, verification |-> ver,
     error |-> NoErr]

\* RunScenarioCollectAfterCall that goes on to the next step after a request raised
RunScenarioCollectAfterCallSkipsRaise(step_name, step_to_run, call, ver) ==
    /\ calls' = Append(calls, CallEntry(call))
    /\ IF call.raised
       THEN /\ report' = Append(report, RecordOfRaise(step_name, step_to_run, call))
            /\ idx' = idx + 1
            /\ outcomes' = Append(outcomes, "raised")
            /\ UNCHANGED <<result, responses_list, responses_by_index, responses_by_name>>
       ELSE /\ StoreResponse(step_name, call.resp)
            /\ report' = Append(report, RecordOfAnswer(step_name, step_to_run, call, ver))
            /\ IF ver.ok
               THEN /\ idx' = idx + 1
                    /\ outcomes' = Append(outcomes, "passed")
                    /\ UNCHANGED result
               ELSE /\ result' = FailureWithResponse(idx, step_name, ver.err, call.resp)
                    /\ outcomes' = Append(outcomes, "failed")
                    /\ UNCHANGED idx

\* run_scenario_collect from the return of execute_api_call (call) to the end
\* of the iteration; ver is verify_response(resp, step_to_run)
RunScenarioCollectAfterCall(step_name, step_to_run, call, ver) ==
    /\ calls' = Append(calls, CallEntry(call))
    /\ IF call.raised
       THEN /\ report' = Append(report, RecordOfRaise(step_name, step_to_run, call))
            /\ result' = Failure(idx, step_name, CollectRequestFailedError(call.exc))
            /\ outcomes' = Append(outcomes, "raised")
            /\ UNCHANGED <<idx, responses_list, responses_by_index, responses_by_name>>
       ELSE /\ StoreResponse(step_name, call.resp)
            /\ report' = Append(report, RecordOfAnswer(step_name, step_to_run, call, ver))
            /\ IF ver.ok
               THEN /\ idx' = idx + 1
                    /\ outcomes' = Append(outcomes, "passed")
                    /\ UNCHANGED result
               ELSE /\ result' = FailureWithResponse(idx, step_name, ver.err, call.resp)
                    /\ outcomes' = Append(outcomes, "failed")
                    /\ UNCHANGED idx

\* RunScenarioCollectCall that goes on whatever verify_response returns
RunScenarioCollectCallUnverified(step_name, step_to_run, call) ==
    RunScenarioCollectAfterCall(step_name, step_to_run, call, Pass)

\* run_scenario_collect from the call of execute_api_call on the resolved step
RunScenarioCollectCall(step_name, step_to_run, call) ==
    RunScenarioCollectAfterCall(step_name, step_to_run, call,
                                VerifyResponse(call.resp, step_to_run))

\* one iteration of the loop of run_scenario_collect
RunScenarioCollectIter ==
    /\ runner = "run_scenario_collect"
    /\ ~result.done
    /\ idx <= Len(StepsOf(scenario))
    /\ \E t \in 1..Len(Transports) :
         RunScenarioCollectCall(StepName(StepsOf(scenario)[idx], idx), StepToRun,
                                ExecuteApiCall(StepToRun, Transports[t], Len(calls) + 1))
    /\ UNCHANGED <<scenario, runner, fnIn, fnOut>>

\* the return True, None, report that ends run_scenario_collect
RunScenarioCollectReturn ==
    /\ runner = "run_scenario_collect"
    /\ ~result.done
    /\ idx > Len(StepsOf(scenario))
    /\ result' = Success
    /\ UNCHANGED <<scenario, runner, idx, responses_list, responses_by_index,
                   responses_by_name, calls, outcomes, report, fnIn, fnOut>>

\* a runner is called on a scenario: the state after its first lines
Init ==
    /\ \/ \E q \in SeqsUpTo(1..Len(StepPool), MaxSteps) : scenario = ScenarioOf(q)
       \/ scenario = ScenarioNullSteps
       \/ scenario = ScenarioNoSteps
    /\ runner \in {"run_scenario", "run_scenario_collect"}
    /\ idx = 1
    /\ responses_list = <<>>
    /\ responses_by_index = <<>>
    /\ responses_by_name = <<>>
    /\ calls = <<>>
    /\ outcomes = <<>>
    /\ report = <<>>
    /\ result = NoResult
    /\ fnIn = None
    /\ fnOut = None

Next ==
    \/ RunScenarioIter
    \/ RunScenarioReturn
    \/ RunScenarioCollectIter
    \/ RunScenarioCollectReturn

Spec == Init /\ [][Next]_vars

---------------------------------------------------------------------------
(* run_scenario, then run_scenario_collect, on one scenario with the transport
   behaving the same way both times *)

\* what the transport does at each step: one entry of Transports per step
TransportScripts(n) == [1..n -> 1..Len(Transports)]

\* what is kept of the run of run_scenario
FirstRun == [t |-> "first",
             v |-> [result |-> result, calls |-> calls, outcomes |-> outcomes]]

InitBoth ==
    /\ \/ \E q \in SeqsUpTo(1..Len(StepPool), MaxSteps) : scenario = ScenarioOf(q)
       \/ scenario = ScenarioNullSteps
       \/ scenario = ScenarioNoSteps
    /\ runner = "run_scenario"
    /\ idx = 1
    /\ responses_list = <<>>
    /\ responses_by_index = <<>>
    /\ responses_by_name = <<>>
    /\ calls = <<>>
    /\ outcomes = <<>>
    /\ report = <<>>
    /\ result = NoResult
    /\ \E script \in TransportScripts(Len(StepsOf(scenario))) :
         fnIn = [t |-> "script", v |-> script]
    /\ fnOut = None

\* one iteration of the loop of run_scenario, the transport following the script
BothRunScenarioIter ==
    /\ runner = "run_scenario"
    /\ fnIn.t = "script"
    /\ ~result.done
    /\ idx <= Len(StepsOf(scenario))
    /\ RunScenarioCall(StepName(StepsOf(scenario)[idx], idx), StepToRun,
                       ExecuteApiCall(StepToRun, Transports[fnIn.v[idx]],
                                      Len(calls) + 1))
    /\ UNCHANGED <<scenario, runner, fnIn, fnOut>>

\* run_scenario has returned: run_scenario_collect starts on the same scenario
BothStartCollect ==
    /\ runner = "run_scenario"
    /\ fnIn.t = "script"
    /\ result.done
    /\ fnOut' = FirstRun
    /\ runner' = "run_scenario_collect"
    /\ idx' = 1
    /\ responses_list' = <<>>
    /\ responses_by_index' = <<>>
    /\ responses_by_name' = <<>>
    /\ calls' = <<>>
    /\ outcomes' = <<>>
    /\ report' = <<>>
    /\ result' = NoResult
    /\ UNCHANGED <<scenario, fnIn>>

\* one iteration of the loop of run_scenario_collect, the transport following
\* the script
BothRunScenarioCollectIter ==
    /\ runner = "run_scenario_collect"
    /\ fnIn.t = "script"
    /\ ~result.done
    /\ idx <= Len(StepsOf(scenario))
    /\ RunScenarioCollectCall(StepName(StepsOf(scenario)[idx], idx), StepToRun,
                              ExecuteApiCall(StepToRun, Transports[fnIn.v[idx]],
                                             Len(calls) + 1))
    /\ UNCHANGED <<scenario, runner, fnIn, fnOut>>

NextBoth ==
    \/ BothRunScenarioIter
    \/ RunScenarioReturn
    \/ BothStartCollect
    \/ BothRunScenarioCollectIter
    \/ RunScenarioCollectReturn

SpecBoth == InitBoth /\ [][NextBoth]_vars

---------------------------------------------------------------------------
(* verify_response applied to responses and verification blocks *)

\* the longest json_assertions list
MaxAssertions == 2

BodyItems ==
    D([data |-> D([id |-> I(7), tag |-> None]), items |-> L(<<I(1), None>>)])

\* the responses verified: JSON object, 404 with a JSON object, not JSON, JSON null
VerifyResponses ==
    <<Resp(1, 200, <<"{", "data", "}">>, JsonOk(BodyItems)),
      Resp(1, 404, <<"{", "msg", ":", "bad", "}">>, JsonOk(BodyMsg)),
      Resp(1, 200, <<"pong">>, JsonErr),
      Resp(1, 200, <<"null">>, JsonOk(None))>>

PathMissing == <<"$", ".", "missing">>
PathItems == <<"$", ".", "items", "[", "*", "]">>
PathTag == <<"$", ".", "data", ".", "tag">>
PathInvalid == <<"$", ".", "[">>

\* the assertions of the lists: two that pass on BodyItems, then a wrong value,
\* a missing path, no path key, an invalid path
AssertionPool ==
    <<D([path |-> S(PathDataId), expected_value |-> I(7)]),
      D([path |-> S(PathItems), contains |-> I(1)]),
      D([path |-> S(PathDataId), expected_value |-> I(9)]),
      D([path |-> S(PathMissing)]),
      D([expected_value |-> I(7)]),
      D([path |-> S(PathInvalid), exists |-> B(TRUE)])>>

\* the verification block with this status_code (None: no key) and these assertions
VerificationOf(status, q) ==
    IF IsNone(status)
    THEN D([json_assertions |-> L([i \in 1..Len(q) |-> AssertionPool[q[i]]])])
    ELSE D([status_code |-> status,
            json_assertions |-> L([i \in 1..Len(q) |-> AssertionPool[q[i]]])])

\* the verification blocks with no json_assertions key and with json_assertions: null
VerificationNoAssertions(status) ==
    IF IsNone(status) THEN EmptyDict ELSE D([status_code |-> status])
VerificationNullAssertions(status) ==
    IF IsNone(status) THEN D([json_assertions |-> None])
    ELSE D([status_code |-> status, json_assertions |-> None])

ExpectedStatuses == <<None, I(200), I(404)>>

\* the values a directive key is given; position 1 stands for no key
ExistsValues == <<None, B(TRUE), B(FALSE)>>
NotNullValues == <<None, B(TRUE), B(FALSE)>>
ContainsValues == <<None, I(7), I(1)>>
ExpectedValues == <<None, I(7), I(9)>>
DirectivePaths == <<PathDataId, PathMissing, PathItems, PathTag>>

\* the assertion on path with the directive values at positions e, n, c, x
AssertionWith(path, e, n, c, x) ==
    D([k \in {"path"} \cup (IF e > 1 THEN {"exists"} ELSE {})
                      \cup (IF n > 1 THEN {"not_null"} ELSE {})
                      \cup (IF c > 1 THEN {"contains"} ELSE {})
                      \cup (IF x > 1 THEN {"expected_value"} ELSE {}) |->
         CASE k = "path" -> S(path)
           [] k = "exists" -> ExistsValues[e]
           [] k = "not_null" -> NotNullValues[n]
           [] k = "contains" -> ContainsValues[c]
           [] k = "expected_value" -> ExpectedValues[x]])

PathData == <<"$", ".", "data">>
PathItemsList == <<"$", ".", "items">>

\* the paths and the values of the assertions with one directive: paths that
\* match a scalar, the elements of a list, a list, a dict, nothing
ValuePaths == <<PathDataId, PathItems, PathItemsList, PathData, PathMissing>>
ValuesExpected == <<I(7), I(1), I(9), None, S(<<"id">>), L(<<I(1)>>), B(TRUE)>>

AssertionContaining(path, expected) == D([path |-> S(path), contains |-> expected])
AssertionExpecting(path, expected) == D([path |-> S(path), expected_value |-> expected])

\* the step whose verification is this block
StepVerifying(verification) == D([verification |-> verification])

\* the step whose only check is this assertion
StepAsserting(assertion) ==
    StepVerifying(D([json_assertions |-> L(<<assertion>>)]))

VerifyInput(resp, step) == [t |-> "verify", v |-> [resp |-> resp, step |-> step]]

IdleRunner(name) ==
    /\ scenario = ScenarioNoSteps
    /\ runner = name
    /\ idx = 1
    /\ calls = <<>>
    /\ outcomes = <<>>
    /\ report = <<>>
    /\ result = NoResult
    /\ fnOut = None

InitVerify ==
    /\ IdleRunner("verify_response")
    /\ responses_list = <<>>
    /\ responses_by_index = <<>>
    /\ responses_by_name = <<>>
    /\ \E r \in 1..Len(VerifyResponses) :
         \/ \E st \in 1..Len(ExpectedStatuses) :
              \/ \E q \in SeqsUpTo(1..Len(AssertionPool), MaxAssertions) :
                   fnIn = VerifyInput(VerifyResponses[r],
                                      StepVerifying(VerificationOf(ExpectedStatuses[st], q)))
              \/ fnIn = VerifyInput(VerifyResponses[r],
                          StepVerifying(VerificationNoAssertions(ExpectedStatuses[st])))
              \/ fnIn = VerifyInput(VerifyResponses[r],
                          StepVerifying(VerificationNullAssertions(ExpectedStatuses[st])))
         \/ \E p \in 1..Len(DirectivePaths) :
              \E e \in 1..Len(ExistsValues) : \E n \in 1..Len(NotNullValues) :
              \E c \in 1..Len(ContainsValues) : \E x \in 1..Len(ExpectedValues) :
                fnIn = VerifyInput(VerifyResponses[r],
                           StepAsserting(AssertionWith(DirectivePaths[p], e, n, c, x)))
         \/ \E p \in 1..Len(ValuePaths) : \E x \in 1..Len(ValuesExpected) :
              \/ fnIn = VerifyInput(VerifyResponses[r],
                          StepAsserting(AssertionContaining(ValuePaths[p], ValuesExpected[x])))
              \/ fnIn = VerifyInput(VerifyResponses[r],
                          StepAsserting(AssertionExpecting(ValuePaths[p], ValuesExpected[x])))

\* ok, err = verify_response(resp, step)
VerifyApply ==
    /\ fnIn.t = "verify"
    /\ fnOut.t = "none"
    /\ fnOut' = [t |-> "verified", v |-> VerifyResponse(fnIn.v.resp, fnIn.v.step)]
    /\ UNCHANGED <<scenario, runner, idx, responses_list, responses_by_index,
                   responses_by_name, calls, outcomes, report, result, fnIn>>

NextVerify == VerifyApply

SpecVerify == InitVerify /\ [][NextVerify]_vars

---------------------------------------------------------------------------
(* _substitute_response_placeholders applied to steps under response contexts *)

\* the most responses a context holds
MaxResponses == 2

\* the steps that filled a context: the name of the step and the answer it got
ContextEntries ==
    <<[name |-> <<"login">>, answer |-> 2], [name |-> <<"login">>, answer |-> 3],
      [name |-> <<"login">>, answer |-> 4], [name |-> <<"1">>, answer |-> 2],
      [name |-> <<"1">>, answer |-> 3], [name |-> <<"1">>, answer |-> 4],
      [name |-> <<"login">>, answer |-> 5], [name |-> <<"1">>, answer |-> 5]>>

\* the answers of the contexts: those of the runs, and a body with a list
ContextAnswers ==
    Transports \o <<Answers(200, <<"{", "data", "}">>, JsonOk(BodyItems))>>

\* the response of the k-th step of a context
ContextResp(q, k) ==
    Resp(k, ContextAnswers[ContextEntries[q[k]].answer].status,
         ContextAnswers[ContextEntries[q[k]].answer].text,
         ContextAnswers[ContextEntries[q[k]].answer].json)

\* the context after the first k steps of q were stored
RECURSIVE ContextAfter(_, _)
ContextAfter(q, k) ==
    IF k = 0 THEN Ctx(<<>>, <<>>, <<>>)
    ELSE Ctx(Put(Put(ContextAfter(q, k - 1).by_name, ContextEntries[q[k]].name,
                     ContextResp(q, k)),
                 <<"last">>, ContextResp(q, k)),
             Put(ContextAfter(q, k - 1).by_index, k, ContextResp(q, k)),
             Append(ContextAfter(q, k - 1).list, ContextResp(q, k)))

\* a reference of a template
RefOf(kind, ref, path) == [kind |-> kind, ref |-> ref, path |-> path]

\* the strings substituted: the text, its references in order, and the length
\* of the text up to the end of the first reference
SubstTemplates ==
    <<[text |-> RefStatus(<<"1">>), refs |-> <<RefOf("status", <<"1">>, <<>>)>>, lead |-> 7],
      [text |-> RefStatus(<<"2">>), refs |-> <<RefOf("status", <<"2">>, <<>>)>>, lead |-> 7],
      [text |-> <<"/", "s", "=">> \o RefStatus(<<"last">>),
       refs |-> <<RefOf("status", <<"last">>, <<>>)>>, lead |-> 10],
      [text |-> RefText(<<"login">>), refs |-> <<RefOf("text", <<"login">>, <<>>)>>,
       lead |-> 7],
      [text |-> <<"t", "=">> \o RefText(<<"9">>), refs |-> <<RefOf("text", <<"9">>, <<>>)>>,
       lead |-> 9],
      [text |-> RefJsonpath(<<"login">>, PathDataId),
       refs |-> <<RefOf("jsonpath", <<"login">>, PathDataId)>>, lead |-> 14],
      [text |-> <<"id", "=">> \o RefJsonpath(<<"last">>, PathDataId),
       refs |-> <<RefOf("jsonpath", <<"last">>, PathDataId)>>, lead |-> 16],
      [text |-> RefJsonpath(<<"1">>, <<"$", ".", "[">>),
       refs |-> <<RefOf("jsonpath", <<"1">>, <<"$", ".", "[">>)>>, lead |-> 12],
      [text |-> RefJsonpath(<<"nobody">>, PathDataId),
       refs |-> <<RefOf("jsonpath", <<"nobody">>, PathDataId)>>, lead |-> 14],
      [text |-> RefJsonpath(<<"1">>, <<"$", ".", "missing">>),
       refs |-> <<RefOf("jsonpath", <<"1">>, <<"$", ".", "missing">>)>>, lead |-> 12],
      [text |-> <<"/", "x">>, refs |-> <<>>, lead |-> 2],
      [text |-> RefStatus(<<"9">>) \o <<"/">> \o RefText(<<"last">>),
       refs |-> <<RefOf("status", <<"9">>, <<>>), RefOf("text", <<"last">>, <<>>)>>,
       lead |-> 7],
      [text |-> RefJsonpath(<<"login">>, PathItems),
       refs |-> <<RefOf("jsonpath", <<"login">>, PathItems)>>, lead |-> 15],
      [text |-> <<"ids", "=">> \o RefJsonpath(<<"last">>, PathItems) \o <<"/", "z">>,
       refs |-> <<RefOf("jsonpath", <<"last">>, PathItems)>>, lead |-> 17],
      [text |-> RefJsonpath(<<"1">>, PathData),
       refs |-> <<RefOf("jsonpath", <<"1">>, PathData)>>, lead |-> 12],
      [text |-> RefJsonpath(<<"last">>, <<"$", ".", "msg">>),
       refs |-> <<RefOf("jsonpath", <<"last">>, <<"$", ".", "msg">>)>>, lead |-> 12]>>

\* the step that carries the string in its url, in its body and in a list
StepCarrying(text) ==
    D([action |-> D([url |-> S(<<"/", "x", "/">> \o text),
                     body |-> D([v |-> S(text), w |-> L(<<S(text), I(1)>>)])])])

SubstInput(i) == [t |-> "substitute", v |-> [template |-> i,
                                             step |-> StepCarrying(SubstTemplates[i].text)]]

InitSubst ==
    /\ IdleRunner("_substitute_response_placeholders")
    /\ \E q \in SeqsUpTo(1..Len(ContextEntries), MaxResponses) :
         /\ responses_list = ContextAfter(q, Len(q)).list
         /\ responses_by_index = ContextAfter(q, Len(q)).by_index
         /\ responses_by_name = ContextAfter(q, Len(q)).by_name
    /\ \E i \in 1..Len(SubstTemplates) : fnIn = SubstInput(i)

\* the substituted step and the call execute_api_call makes with it
SubstOutput(step_to_run) ==
    [t |-> "substituted",
     v |-> [step |-> step_to_run, call |-> ExecuteApiCall(step_to_run, Transports[2], 1)]]

\* step_to_run = _substitute_response_placeholders(step, ...); resp = execute_api_call(step_to_run)
SubstApply ==
    /\ fnIn.t = "substitute"
    /\ fnOut.t = "none"
    /\ fnOut' = SubstOutput(SubstituteResponsePlaceholders(fnIn.v.step, CurrentCtx))
    /\ UNCHANGED <<scenario, runner, idx, responses_list, responses_by_index,
                   responses_by_name, calls, outcomes, report, result, fnIn>>

NextSubst == SubstApply

SpecSubst == InitSubst /\ [][NextSubst]_vars

---------------------------------------------------------------------------
(* load_scenarios applied to documents and configs *)

\* the parts of a string: literal text, or a placeholder $key
Lit(toks) == [key |-> FALSE, name |-> "", toks |-> toks]
Key(name, toks) == [key |-> TRUE, name |-> name, toks |-> <<"$">> \o toks]

\* the strings of the documents, each as its parts
StaticTemplates ==
    <<<<Key("X", <<"X">>)>>,
      <<Key("Z", <<"Z">>)>>,
      <<Key("W", <<"W">>)>>,
      <<Key("M", <<"M">>)>>,
      <<Key("Y", <<"Y">>)>>,
      <<Key("U", <<"U">>)>>,
      <<Key("X1", <<"X", "1">>)>>,
      <<Lit(<<"/", "a", "/">>), Key("X", <<"X">>), Lit(<<"/">>), Key("U", <<"U">>)>>,
      <<Key("X", <<"X">>), Key("Z", <<"Z">>)>>,
      <<Lit(<<"id", "=">>), Key("W", <<"W">>)>>,
      <<Lit(<<" ">>), Key("X", <<"X">>)>>,
      <<Key("M", <<"M">>), Lit(<<".">>)>>,
      <<Lit(<<"plain">>)>>,
      <<Lit(<<"x", " ", "$", " ", "y">>)>>,
      <<Key("resp", <<"resp">>), Lit(<<"[", "1", "]", ".", "status">>)>>,
      <<Key("resp", <<"resp">>), Lit(<<"[", "login", "]", ".", "text">>)>>,
      <<Key("resp", <<"resp">>),
        Lit(<<"[", "last", "]", ".", "jsonpath", "(", "$", ".", "data", ".", "id", ")">>)>>,
      <<Lit(<<"/", "u", "/">>), Key("resp", <<"resp">>),
        Lit(<<"[", "1", "]", ".", "status">>)>>>>

\* the text of a template
RECURSIVE TextOf(_)
TextOf(parts) == IF parts = <<>> THEN <<>> ELSE Head(parts).toks \o TextOf(Tail(parts))

\* the configs: absent, empty, values of every type, a string value, a key resp
Configs ==
    <<None,
      EmptyDict,
      D([X |-> I(7), Y |-> S(<<"v">>), Z |-> B(TRUE), W |-> L(<<I(1), S(<<"a">>)>>),
         M |-> D([k |-> I(1)])]),
      D([X |-> S(<<"s">>), U |-> None]),
      D([resp |-> S(<<"r">>), X1 |-> I(0)])>>

\* the document whose strings are this text: in a scenario name, in a url, in
\* a list; with leaves that are not strings and a key that is a placeholder
DocumentOf(text) ==
    D([scenarios |-> L(<<
         D([name |-> S(text),
            steps |-> L(<<D([action |-> D(("url" :> S(text)) @@ ("timeout" :> I(30))
                                          @@ ("verify" :> B(FALSE)) @@ ("cert" :> None)
                                          @@ ("$X" :> S(<<"k">>))
                                          @@ ("headers" :> L(<<S(text), I(1)>>)))])>>)])>>)])

\* the documents load_scenarios rejects: an empty file, no scenarios key
DocumentsRejected == <<None, EmptyDict, D([other |-> I(1)])>>

StaticInput(t, parsed, c) ==
    [t |-> "load", v |-> [template |-> t, parsed |-> parsed, config |-> Configs[c]]]

InitStatic ==
    /\ IdleRunner("load_scenarios")
    /\ responses_list = <<>>
    /\ responses_by_index = <<>>
    /\ responses_by_name = <<>>
    /\ \E c \in 1..Len(Configs) :
         \/ \E t \in 1..Len(StaticTemplates) :
              fnIn = StaticInput(t, DocumentOf(TextOf(StaticTemplates[t])), c)
         \/ \E d \in 1..Len(DocumentsRejected) :
              fnIn = StaticInput(0, DocumentsRejected[d], c)

\* data = load_scenarios(path, config)
StaticApply ==
    /\ fnIn.t = "load"
    /\ fnOut.t = "none"
    /\ fnOut' = [t |-> "loaded", v |-> LoadScenarios(fnIn.v.parsed, fnIn.v.config)]
    /\ UNCHANGED <<scenario, runner, idx, responses_list, responses_by_index,
                   responses_by_name, calls, outcomes, report, result, fnIn>>

NextStatic == StaticApply

SpecStatic == InitStatic /\ [][NextStatic]_vars

---------------------------------------------------------------------------
(* execute_api_call on the actions a scenario can hold *)

\* a key of the action: absent, or present with this value
Absent == [has |-> FALSE, v |-> None]
Present(x) == [has |-> TRUE, v |-> x]

RequestMethods ==
    <<Absent, Present(None), Present(S(<<>>)), Present(S(<<"get">>)),
      Present(S(<<"Get">>)), Present(S(<<"post">>)), Present(S(<<"POST">>))>>

RequestUrls ==
    <<Absent, Present(None), Present(S(<<>>)), Present(S(<<"/", "a">>)),
      Present(S(<<"/", "u", "/", "1">>))>>

RequestBodies ==
    <<Absent, Present(None), Present(I(0)), Present(B(FALSE)), Present(S(<<>>)),
      Present(EmptyDict), Present(D([user |-> S(<<"u">>)])), Present(L(<<>>))>>

\* the dict d with the key set when the key is present
WithKey(d, key, entry) ==
    IF entry.has
    THEN D([k \in DOMAIN d.v \cup {key} |-> IF k = key THEN entry.v ELSE d.v[k]])
    ELSE d

\* the step whose action has this method, url and body
StepRequesting(m, u, b) ==
    D([action |-> WithKey(WithKey(WithKey(EmptyDict, "method", RequestMethods[m]),
                                  "url", RequestUrls[u]),
                          "body", RequestBodies[b])])

RequestInput(m, u, b) ==
    [t |-> "action", v |-> [m |-> m, u |-> u, b |-> b, step |-> StepRequesting(m, u, b)]]

InitRequest ==
    /\ IdleRunner("execute_api_call")
    /\ responses_list = <<>>
    /\ responses_by_index = <<>>
    /\ responses_by_name = <<>>
    /\ \E m \in 1..Len(RequestMethods), u \in 1..Len(RequestUrls),
          b \in 1..Len(RequestBodies) :
         fnIn = RequestInput(m, u, b)

\* resp = execute_api_call(step), with the transport answering or raising
RequestApply ==
    /\ fnIn.t = "action"
    /\ fnOut.t = "none"
    /\ \E tr \in 1..Len(Transports) :
         fnOut' = [t |-> "call",
                   v |-> [transport |-> tr,
                          call |-> ExecuteApiCall(fnIn.v.step, Transports[tr], 1)]]
    /\ UNCHANGED <<scenario, runner, idx, responses_list, responses_by_index,
                   responses_by_name, calls, outcomes, report, result, fnIn>>

NextRequest == RequestApply

SpecRequest == InitRequest /\ [][NextRequest]_vars

---------------------------------------------------------------------------
(* The command-line run: __main__ of api_tester.py *)

MaxScenarios == 2

\* how the steps of one scenario can end under run_scenario_collect: the run
\* stops at the first step that does not pass
ScenarioRuns ==
    << <<>>, <<"passed">>, <<"passed", "passed">>, <<"passed", "failed">>,
       <<"raised">> >>

\* the step_record of a step: "verification" stays None when the request raised
StepRecordOf(k, outcome) ==
    [index |-> k,
     has_verification |-> outcome # "raised",
     verification_ok |-> outcome = "passed"]

\* ok, info, scen_report = run_scenario_collect(scen)
CollectOf(run) ==
    [ok |-> \A k \in 1..Len(run) : run[k] = "passed",
     steps |-> [k \in 1..Len(run) |-> StepRecordOf(k, run[k])]]

\* args of the command line that decide what is written
MainArgs == [report : BOOLEAN, report_json : BOOLEAN, report_html : BOOLEAN]

\* st.get("verification", {}).get("ok", True) on a record whose "verification"
\* is None raises AttributeError
GenerateHtmlReportRaises(detailed_report) ==
    \E s \in 1..Len(detailed_report) :
      \E k \in 1..Len(detailed_report[s].steps) :
        ~detailed_report[s].steps[k].has_verification

MainInput(loads, runs, args) ==
    [t |-> "argv", v |-> [loads |-> loads, runs |-> runs, args |-> args]]

InitMain ==
    /\ IdleRunner("__main__")
    /\ responses_list = <<>>
    /\ responses_by_index = <<>>
    /\ responses_by_name = <<>>
    /\ \E args \in MainArgs :
         \/ fnIn = MainInput(FALSE, <<>>, args)
         \/ \E runs \in SeqsUpTo(1..Len(ScenarioRuns), MaxScenarios) :
              fnIn = MainInput(TRUE, runs, args)

\* cfg = load_config(...); data = load_scenarios_aggregate(...); the counters
MainLoad ==
    /\ runner = "__main__"
    /\ fnOut.t = "none"
    /\ fnOut' = [t |-> "main",
                 v |-> [pc |-> IF fnIn.v.loads THEN "loop" ELSE "exited",
                        loaded |-> fnIn.v.loads,
                        total |-> Len(fnIn.v.runs),
                        passed |-> 0, failed |-> 0,
                        ran |-> <<>>, detailed_report |-> <<>>,
                        json_written |-> FALSE, html_written |-> FALSE,
                        exit_code |-> IF fnIn.v.loads THEN 0 ELSE 3]]
    /\ UNCHANGED <<scenario, runner, idx, responses_list, responses_by_index,
                   responses_by_name, calls, outcomes, report, result, fnIn>>

\* one iteration of `for scen in scenarios`
MainRunScenario ==
    /\ fnOut.t = "main"
    /\ fnOut.v.pc = "loop"
    /\ Len(fnOut.v.ran) < fnOut.v.total
    /\ LET m == fnOut.v
           n == Len(m.ran) + 1
           c == CollectOf(ScenarioRuns[fnIn.v.runs[n]])
       IN fnOut' = [fnOut EXCEPT
              !.v.ran = Append(m.ran, n),
              !.v.detailed_report = Append(m.detailed_report, c),
              !.v.passed = IF c.ok THEN m.passed + 1 ELSE m.passed,
              !.v.failed = IF c.ok THEN m.failed ELSE m.failed + 1]
    /\ UNCHANGED <<scenario, runner, idx, responses_list, responses_by_index,
                   responses_by_name, calls, outcomes, report, result, fnIn>>

\* the summary, then the JSON report: open(args.report_json, ...) raises when
\* only --report was given, and the exception is printed
MainWriteJson ==
    /\ fnOut.t = "main"
    /\ fnOut.v.pc = "loop"
    /\ Len(fnOut.v.ran) = fnOut.v.total
    /\ fnOut' = [fnOut EXCEPT
           !.v.pc = "html",
           !.v.json_written = (fnIn.v.args.report \/ fnIn.v.args.report_json)
                              /\ fnIn.v.args.report_json]
    /\ UNCHANGED <<scenario, runner, idx, responses_list, responses_by_index,
                   responses_by_name, calls, outcomes, report, result, fnIn>>

\* the HTML report, and the exit: an exception of generate_html_report is
\* caught by the outer handler, which exits with 3
MainWriteHtmlAndExit ==
    /\ fnOut.t = "main"
    /\ fnOut.v.pc = "html"
    /\ LET m == fnOut.v
           raises == fnIn.v.args.report_html
                     /\ GenerateHtmlReportRaises(m.detailed_report)
       IN fnOut' = [fnOut EXCEPT
              !.v.pc = "exited",
              !.v.html_written = fnIn.v.args.report_html /\ ~raises,
              !.v.exit_code = IF raises THEN 3
                              ELSE IF m.failed = 0 THEN 0 ELSE 2]
    /\ UNCHANGED <<scenario, runner, idx, responses_list, responses_by_index,
                   responses_by_name, calls, outcomes, report, result, fnIn>>

NextMain ==
    \/ MainLoad
    \/ MainRunScenario
    \/ MainWriteJson
    \/ MainWriteHtmlAndExit

SpecMain == InitMain /\ [][NextMain]_vars

---------------------------------------------------------------------------
(* Properties of the runners *)

Steps == StepsOf(scenario)

\* the steps executed so far that did not pass
Failed == {k \in 1..Len(outcomes) : outcomes[k] # "passed"}

\* the steps executed so far whose request was answered
Answered == {k \in 1..Len(outcomes) : outcomes[k] # "raised"}

\* the first step that did not pass
FirstFailed == CHOOSE k \in Failed : \A j \in Failed : k <= j

\* C1: first-failure-stops.  run_scenario calls the transport collaborator
\* (execute_api_call) once per step, in step order and without retries; when
\* step i is the first step whose request fails or whose response fails
\* verification it has made exactly i calls and makes no call for a later
\* step; when no step fails it makes exactly one call per step.  Every call
\* put a request on the wire, except a failing call of a step with no url.
C1_FirstFailureStops ==
    runner = "run_scenario" =>
      /\ Len(calls) = Len(outcomes)
      /\ \A k \in 1..Len(calls) :
           /\ calls[k].index = k
           /\ calls[k].sent \/ (k = Len(calls) /\ outcomes[k] = "raised")
      /\ Failed # {} =>
           /\ Len(calls) = FirstFailed
           /\ result.done /\ ~result.ok
           /\ ~ENABLED RunScenarioIter
      /\ (result.done /\ result.ok) => Len(calls) = Len(Steps)

\* step 1 of a two-step scenario failed verification and run_scenario returned
C1_Witness ==
    /\ runner = "run_scenario"
    /\ Len(Steps) = 2
    /\ result.done
    /\ outcomes = <<"failed">>
    /\ Len(calls) = 1

\* C2 (as claimed): when the transport call of step i raises, the runner
\* returns a failure whose info has step_index i, the step's name and a
\* "Request failed ..." error, and nothing of step i is in the response
\* context; for run_scenario and for run_scenario_collect.
C2_TransportFailureIsRequestFailed ==
    (Len(outcomes) > 0 /\ outcomes[Len(outcomes)] = "raised") =>
      /\ result.done /\ ~result.ok
      /\ result.info.step_index = Len(outcomes)
      /\ result.info.step_name = StepName(Steps[Len(outcomes)], Len(outcomes))
      /\ result.info.error.template = "Request failed: {e}"
      /\ ~result.info.has_response
      /\ Len(responses_list) = Len(outcomes) - 1
      /\ Len(outcomes) \notin DOMAIN responses_by_index

\* C3: the result is success iff every step of the scenario had its request
\* answered and its response pass verification; a scenario with no steps
\* (steps missing, null or empty) makes no call and its result is success.
C3_SuccessIffAllStepsPass ==
    /\ result.done =>
         (result.ok <=> /\ Len(outcomes) = Len(Steps)
                        /\ \A k \in 1..Len(outcomes) : outcomes[k] = "passed")
    /\ Len(Steps) = 0 =>
         /\ Len(calls) = 0
         /\ result.done => result.ok
         /\ ~result.done => ENABLED (RunScenarioReturn \/ RunScenarioCollectReturn)

\* a scenario with steps: null has returned success without any call
C3_Witness ==
    /\ IsNone(Get(scenario, "steps", L(<<>>)))
    /\ result.done /\ result.ok
    /\ Len(calls) = 0

\* the three views of the response context agree with the log of k responses
C4_Views ==
    LET k == Cardinality(Answered)
    IN  /\ Len(responses_list) = k
        /\ DOMAIN responses_by_index = 1..k
        /\ \A j \in 1..k :
             /\ responses_list[j].t = "resp"
             /\ responses_list[j].v.id = j
             /\ Same(responses_by_index[j], responses_list[j])
        /\ IF k = 0 THEN <<"last">> \notin DOMAIN responses_by_name
           ELSE Same(responses_by_name[<<"last">>], responses_list[k])

\* no entry of the log is replaced or removed by a step
C4_AppendOnly ==
    /\ Len(responses_list') >= Len(responses_list)
    /\ \A j \in 1..Len(responses_list) :
         /\ Same(responses_list'[j], responses_list[j])
         /\ responses_list'[j].v.status_code = responses_list[j].v.status_code
         /\ Same(responses_by_index'[j], responses_by_index[j])

\* C4: the response context is one append-only log with consistent views:
\* after k steps have received a response, responses_list has k entries in
\* execution order, responses_by_index maps exactly 1..k to the same entries,
\* "last" maps to the most recent one, and no step replaces or removes an
\* entry recorded earlier.
C4_AppendOnlyLogWithViews == C4_Views /\ [][C4_Views' /\ C4_AppendOnly]_vars

\* two responses are in the log
C4_Witness == Len(responses_list) = 2 /\ Len(outcomes) = 2

\* the response a reference by the name of step j resolves to
C5_ByNameOf(j) == ResolveRespRef(StepName(Steps[j], j), CurrentCtx)

\* the last recorded step that carries the name of step j
C5_LatestNamed(j) ==
    CHOOSE m \in 1..Len(responses_list) :
      /\ StepName(Steps[m], m) = StepName(Steps[j], j)
      /\ \A n \in 1..Len(responses_list) :
           StepName(Steps[n], n) = StepName(Steps[j], j) => n <= m

\* C5 (as claimed): whatever names the steps carry, once step j has completed
\* a reference by step j's name resolves to the response recorded for step j,
\* the response index j returns.
C5_NameLookupReturnsStepResponse ==
    \A j \in 1..Len(responses_list) :
      /\ Same(C5_ByNameOf(j), responses_list[j])
      /\ Same(C5_ByNameOf(j), responses_by_index[j])

\* C5 (amended): once step j has completed, a reference by step j's name
\* resolves to the most recent response when the name is "last", to the
\* response of step n (None when there is none) when the name parses as the
\* integer n, and otherwise to the response of the latest completed step that
\* carries the name: step j's own response, the one index j returns, exactly
\* when no later completed step reuses the name.
C5_NameLookupByRule ==
    \A j \in 1..Len(responses_list) :
      LET name == StepName(Steps[j], j)
      IN  IF name = <<"last">>
          THEN Same(C5_ByNameOf(j), responses_list[Len(responses_list)])
          ELSE IF ParseInt(name).ok
          THEN (IF ParseInt(name).val \in 1..Len(responses_list)
                THEN Same(C5_ByNameOf(j), responses_list[ParseInt(name).val])
                ELSE IsNone(C5_ByNameOf(j)))
          ELSE /\ Same(C5_ByNameOf(j), responses_list[C5_LatestNamed(j)])
               /\ C5_LatestNamed(j) = j =>
                    /\ Same(C5_ByNameOf(j), responses_list[j])
                    /\ Same(C5_ByNameOf(j), responses_by_index[j])

\* two steps with different plain names, login and the default step-2, have
\* completed
C5_Witness ==
    /\ Len(responses_list) = 2
    /\ StepName(Steps[1], 1) = <<"login">>
    /\ StepName(Steps[2], 2) = <<"step", "-", "2">>

\* C6 (as claimed): a reference $resp[ref].status to a recorded response is
\* resolved whatever the status, 4xx and 5xx included: a string that is exactly
\* the reference reaches the request as the integer status code, a reference
\* inside a longer string as its decimal digits.
C6_StatusRefYieldsStatusCode ==
    \A k \in 2..Len(calls) :
      /\ (Same(Steps[k], StepOne) /\ calls[k].sent) =>
           Same(Get(calls[k].request.params, "code", None),
                I(responses_list[1].v.status_code))
      /\ (Same(Steps[k], StepInline) /\ calls[k].sent) =>
           Same(calls[k].request.url,
                S(<<"/", "s", "=">> \o IntToStr(responses_list[k - 1].v.status_code)))

\* the capture of StepLogin is taken from the response of step j
C8_Captured(j) ==
    /\ Same(Steps[j], StepLogin)
    /\ outcomes[j] = "passed"
    /\ CaptureFromResponse(responses_list[j], Get(StepLogin, "capture", None).v[1]).ok

\* the value captured under X from the response of step j
C8_ValueOf(j) ==
    CaptureFromResponse(responses_list[j], Get(StepLogin, "capture", None).v[1]).value

\* C8 (as claimed): a value captured under the name X from the response of a
\* step that passed is in the runtime before the next step is built, so a later
\* step's $X reaches the request as the captured value: with its type when the
\* whole string is the placeholder, as text inside a longer string.
C8_CaptureReachesLaterStep ==
    \A k \in 2..Len(calls) : \A j \in 1..(k - 1) :
      (/\ Same(Steps[k], StepUseX)
       /\ calls[k].sent
       /\ C8_Captured(j)
       /\ \A m \in (j + 1)..(k - 1) : ~Same(Steps[m], StepLogin)) =>
        /\ Same(Get(calls[k].request.json, "id", None), C8_ValueOf(j))
        /\ Same(calls[k].request.url, S(<<"/", "u", "/">> \o PyStr(C8_ValueOf(j))))

\* C16: report on early termination.  The report of run_scenario_collect has
\* one record per executed step, with indices 1, 2, ... in execution order:
\* exactly i records when the run ended because step i failed, one per step
\* when the scenario passed.  Every record carries the request snapshot of
\* the resolved step; the record of a step whose request was answered carries
\* a response snapshot and the verification outcome, the record of a step
\* whose request raised carries neither.
C16_ReportOnEarlyTermination ==
    runner = "run_scenario_collect" =>
      /\ Len(report) = Len(outcomes)
      /\ \A k \in 1..Len(report) :
           /\ report[k].index = k
           /\ report[k].name = StepName(Steps[k], k)
           /\ Same(report[k].request.url, calls[k].request.url)
           /\ calls[k].sent => report[k].request.method = calls[k].request.method
           /\ outcomes[k] # "raised" =>
                /\ report[k].has_response
                /\ report[k].status_code = responses_list[k].v.status_code
                /\ report[k].has_verification
                /\ report[k].verification.ok <=> outcomes[k] = "passed"
           /\ outcomes[k] = "raised" =>
                ~report[k].has_response /\ ~report[k].has_verification
      /\ (result.done /\ ~result.ok) =>
           /\ Len(report) = result.info.step_index
           /\ Len(report) = FirstFailed
      /\ (result.done /\ result.ok) => Len(report) = Len(Steps)

\* run_scenario_collect ended at step 2 of 2, whose request raised
C16_Witness ==
    /\ runner = "run_scenario_collect"
    /\ result.done
    /\ outcomes = <<"passed", "raised">>
    /\ Len(report) = 2

\* the by-name storage after the responses of steps 1..k were stored
RECURSIVE C19_ByNameAfter(_)
C19_ByNameAfter(k) ==
    IF k = 0 THEN <<>>
    ELSE Put(Put(C19_ByNameAfter(k - 1), StepName(Steps[k], k), responses_list[k]),
             <<"last">>, responses_list[k])

\* the context holding exactly the responses of steps 1..k
C19_CtxAfter(k) ==
    Ctx(C19_ByNameAfter(k), [j \in 1..k |-> responses_list[j]],
        SubSeq(responses_list, 1, k))

\* step k as it ran: its placeholders resolved against the steps before it
C19_StepAsRun(k) == SubstituteResponsePlaceholders(Steps[k], C19_CtxAfter(k - 1))

\* the response of step k passed the verification of step k
C19_Verified(k) == VerifyResponse(responses_list[k], C19_StepAsRun(k)).ok

\* step idx is the step whose placeholders are resolved next
C19_Resolving == ~result.done /\ idx <= Len(Steps)

C19_ContextIsVerified ==
    /\ C19_Resolving =>
         /\ Len(responses_list) = idx - 1
         /\ \A k \in 1..(idx - 1) :
              /\ responses_list[k].v.id = k
              /\ C19_Verified(k)
         /\ DOMAIN responses_by_index = 1..(idx - 1)
         /\ \A k \in 1..(idx - 1) : Same(responses_by_index[k], responses_list[k])
         /\ DOMAIN responses_by_name = DOMAIN C19_ByNameAfter(idx - 1)
         /\ \A n \in DOMAIN responses_by_name :
              Same(responses_by_name[n], C19_ByNameAfter(idx - 1)[n])
    /\ \A k \in 1..Len(outcomes) :
         outcomes[k] = "failed" =>
           /\ result.done
           /\ Len(responses_list) = k
           /\ ~C19_Verified(k)

\* C19: placeholders are only ever resolved against verified responses.  In
\* every state in which the placeholders of step i are resolved the context
\* holds exactly the responses of steps 1..i-1, and each of them passed the
\* verification of its step; the response of a step that failed verification
\* is in the context, and from then on nothing is resolved or sent.
C19_ResolvedAgainstVerified ==
    /\ []C19_ContextIsVerified
    /\ [][(\E k \in 1..Len(outcomes) : outcomes[k] = "failed") => UNCHANGED vars]_vars

\* the second step, which refers to the first, is about to be resolved
C19_Witness ==
    /\ C19_Resolving
    /\ idx = 2
    /\ Steps[2] = StepJsonpath
    /\ outcomes = <<"passed">>
    /\ Len(responses_list) = 1
    /\ C19_Verified(1)

\* two entries of calls are the same request
C20_SameCall(a, b) ==
    /\ a.index = b.index
    /\ a.sent = b.sent
    /\ a.request.method = b.request.method
    /\ Same(a.request.url, b.request.url)
    /\ a.request.has_json = b.request.has_json
    /\ Same(a.request.json, b.request.json)
    /\ Same(a.request.headers, b.request.headers)
    /\ Same(a.request.params, b.request.params)
    /\ Same(a.request.timeout, b.request.timeout)

\* two error texts are the same
C20_SameError(a, b) ==
    /\ a.template = b.template
    /\ Same(a.path, b.path)
    /\ Same(a.expected, b.expected)
    /\ Same(a.actual, b.actual)

\* run_scenario_collect has returned, after run_scenario on the same scenario
C20_BothDone ==
    /\ runner = "run_scenario_collect"
    /\ fnIn.t = "script"
    /\ fnOut.t = "first"
    /\ result.done

\* the two runs sent the same resolved requests
C20_SameRequests ==
    /\ Len(calls) = Len(fnOut.v.calls)
    /\ \A k \in 1..Len(calls) : C20_SameCall(calls[k], fnOut.v.calls[k])

\* C20: run_scenario and run_scenario_collect are equivalent.  On the same
\* scenario, with the transport behaving the same way, both send the same
\* resolved requests, return the same verdict and, on failure, the same
\* step_index, step_name and error text, for a verification failure and for
\* a transport failure alike.
C20_RunnersEquivalent ==
    C20_BothDone =>
      /\ C20_SameRequests
      /\ result.ok = fnOut.v.result.ok
      /\ ~result.ok =>
           /\ result.info.step_index = fnOut.v.result.info.step_index
           /\ result.info.step_name = fnOut.v.result.info.step_name
           /\ C20_SameError(result.info.error, fnOut.v.result.info.error)

---------------------------------------------------------------------------
(* Properties of verify_response *)

\* two results are the same (ok, err)
SameResult(a, b) ==
    /\ a.ok = b.ok
    /\ a.err.template = b.err.template
    /\ Same(a.err.path, b.err.path)
    /\ Same(a.err.expected, b.err.expected)
    /\ Same(a.err.actual, b.err.actual)

\* the checks of a verification block in their order: the status, then, when
\* there are assertions, the body parse and each assertion (on the parsed body)
C9_ChecksOf(resp, verification, assertions, body) ==
    <<CheckStatus(resp, Get(verification, "status_code", None))>>
    \o (IF Len(assertions) = 0 THEN <<>>
        ELSE <<IF IsNone(body)
               THEN Fail(Msg("Response body is not valid JSON but json_assertions were provided",
                             None, None, None))
               ELSE Pass>>
             \o [i \in 1..Len(assertions) |->
                   IF IsNone(body) THEN Pass ELSE CheckAssertion(assertions[i], body)])

\* the failure of the first check that fails, success when none does
C9_FirstFailing(checks) ==
    IF \A i \in 1..Len(checks) : checks[i].ok THEN Pass
    ELSE checks[CHOOSE i \in 1..Len(checks) :
                  /\ ~checks[i].ok
                  /\ \A j \in 1..(i - 1) : checks[j].ok]

C9_Verification == Get(fnIn.v.step, "verification", EmptyDict)

\* C9: verify_response runs its checks in a fixed order and returns at the
\* first failure: the status check, then (only when json_assertions is not
\* empty) the body parse, then the assertions in list order.  Its result is
\* the failure of the first failing check, success when none fails; with
\* json_assertions empty, null or absent the body plays no part.
C9_FirstFailingCheckDecides ==
    fnOut.t = "verified" =>
      /\ SameResult(fnOut.v,
                    C9_FirstFailing(C9_ChecksOf(fnIn.v.resp, C9_Verification,
                                                AssertionsOf(C9_Verification),
                                                ExtractJson(fnIn.v.resp))))
      /\ Len(AssertionsOf(C9_Verification)) = 0 =>
           (fnOut.v.ok <=> CheckStatus(fnIn.v.resp,
                                       Get(C9_Verification, "status_code", None)).ok)

\* the status check and the first assertion pass, the second assertion fails
\* and its failure is the result
C9_Witness ==
    /\ fnOut.t = "verified"
    /\ "status_code" \in DOMAIN C9_Verification.v
    /\ Len(AssertionsOf(C9_Verification)) = 2
    /\ CheckAssertion(AssertionsOf(C9_Verification)[1], ExtractJson(fnIn.v.resp)).ok
    /\ ~fnOut.v.ok
    /\ fnOut.v.err.template = "JSON path '{path}' expected {expected!r} but got {matches!r}"

\* the assertion of a step with one assertion
C10_Assertion == AssertionsOf(C9_Verification)[1]

DirectiveOrder == <<"exists", "not_null", "contains", "expected_value">>

\* the first directive key the assertion has, whatever its value
C10_FirstPresent(a) ==
    IF \A i \in 1..Len(DirectiveOrder) : DirectiveOrder[i] \notin DOMAIN a.v THEN "default"
    ELSE DirectiveOrder[CHOOSE i \in 1..Len(DirectiveOrder) :
                          /\ DirectiveOrder[i] \in DOMAIN a.v
                          /\ \A j \in 1..(i - 1) : DirectiveOrder[j] \notin DOMAIN a.v]

\* a directive applies when its key is there; not_null only when its value is true
C10_Applies(a, d) ==
    /\ d \in DOMAIN a.v
    /\ d = "not_null" => Truthy(a.v[d])

\* the first directive that applies
C10_FirstApplicable(a) ==
    IF \A i \in 1..Len(DirectiveOrder) : ~C10_Applies(a, DirectiveOrder[i]) THEN "default"
    ELSE DirectiveOrder[CHOOSE i \in 1..Len(DirectiveOrder) :
                          /\ C10_Applies(a, DirectiveOrder[i])
                          /\ \A j \in 1..(i - 1) : ~C10_Applies(a, DirectiveOrder[j])]

\* the assertion with its path and the directive d only
C10_Only(a, d) == D([k \in DOMAIN a.v \cap {"path", d} |-> a.v[k]])

\* the result is the result of the assertion cut down to the directive d; with
\* no directive it is success iff the path has a match
C10_DecidedBy(d) ==
    /\ SameResult(fnOut.v,
                  VerifyResponse(fnIn.v.resp, StepAsserting(C10_Only(C10_Assertion, d))))
    /\ (d = "default" /\ ~IsNone(ExtractJson(fnIn.v.resp))) =>
         (fnOut.v.ok <=>
            Len(JsonpathFind(JsonpathParse(Get(C10_Assertion, "path", None)).sel,
                             ExtractJson(fnIn.v.resp))) > 0)

\* the input is a step with no status check and one assertion that has a path
C10_Case ==
    /\ fnOut.t = "verified"
    /\ "status_code" \notin DOMAIN C9_Verification.v
    /\ Len(AssertionsOf(C9_Verification)) = 1
    /\ "path" \in DOMAIN C10_Assertion.v
    /\ JsonpathParse(Get(C10_Assertion, "path", None)).ok

\* C10 (as claimed): of the directives an assertion carries, with any values,
\* the first present in the order exists, not_null, contains, expected_value
\* decides and the others are ignored.
C10_FirstPresentDirectiveDecides ==
    C10_Case => C10_DecidedBy(C10_FirstPresent(C10_Assertion))

\* C10 (amended): exactly one directive decides an assertion, the first that
\* applies in the order exists, not_null, contains, expected_value, where
\* exists, contains and expected_value apply when the key is there (exists:
\* false included) and not_null applies only when its value is true; the other
\* directives are ignored, and when none applies the assertion passes iff its
\* path has at least one match.
C10_FirstApplicableDirectiveDecides ==
    C10_Case => C10_DecidedBy(C10_FirstApplicable(C10_Assertion))

\* not_null: false with an expected_value that the body does not have: the
\* assertion fails on expected_value
C10_Witness ==
    /\ C10_Case
    /\ "exists" \notin DOMAIN C10_Assertion.v
    /\ "contains" \notin DOMAIN C10_Assertion.v
    /\ "not_null" \in DOMAIN C10_Assertion.v
    /\ ~Truthy(C10_Assertion.v["not_null"])
    /\ "expected_value" \in DOMAIN C10_Assertion.v
    /\ ~fnOut.v.ok
    /\ fnOut.v.err.template = "JSON path '{path}' expected {expected!r} but got {matches!r}"

\* the input is a step with one assertion whose keys are path and directive d,
\* verified against a response with a JSON body
C11_CaseOf(d) ==
    /\ C10_Case
    /\ DOMAIN C10_Assertion.v = {"path", d}
    /\ ~IsNone(ExtractJson(fnIn.v.resp))

\* the matches of the assertion's path in the body
C11_Matches ==
    JsonpathFind(JsonpathParse(Get(C10_Assertion, "path", None)).sel,
                 ExtractJson(fnIn.v.resp))

\* the failure names the path, the expected value and the matched values
C11_ErrNames(template, expected) ==
    /\ fnOut.v.err.template = template
    /\ Same(fnOut.v.err.path, C10_Assertion.v["path"])
    /\ Same(fnOut.v.err.expected, expected)
    /\ Same(fnOut.v.err.actual, L(C11_Matches))

\* the failure names the path only
C11_ErrNamesPath(template) ==
    /\ fnOut.v.err.template = template
    /\ Same(fnOut.v.err.path, C10_Assertion.v["path"])

\* C11: expected_value has any-match semantics.  An assertion with
\* expected_value passes iff its path has at least one match and at least one
\* matched value equals the expected value; it fails with a "not found"
\* message naming the path when there is no match, and otherwise with a
\* message naming the path, the expected value and the matched values.
C11_ExpectedValueAnyMatch ==
    C11_CaseOf("expected_value") =>
      /\ fnOut.v.ok <=>
           \E i \in 1..Len(C11_Matches) :
             PyEq(C11_Matches[i], C10_Assertion.v["expected_value"])
      /\ (~fnOut.v.ok /\ Len(C11_Matches) = 0) =>
           C11_ErrNamesPath("JSON path '{path}' not found")
      /\ (~fnOut.v.ok /\ Len(C11_Matches) > 0) =>
           C11_ErrNames("JSON path '{path}' expected {expected!r} but got {matches!r}",
                        C10_Assertion.v["expected_value"])

\* the path has two matches, one equal to the expected value and one not, and
\* the assertion passed
C11_Witness ==
    /\ C11_CaseOf("expected_value")
    /\ Len(C11_Matches) = 2
    /\ \E i \in 1..2 : ~PyEq(C11_Matches[i], C10_Assertion.v["expected_value"])
    /\ fnOut.v.ok

\* C12: exists is symmetric.  An assertion with exists: true passes iff its
\* path has at least one match and otherwise fails with a "not found" message
\* naming the path; an assertion with exists: false passes iff its path has no
\* match and otherwise fails with a message naming the path and the values found.
C12_ExistsSymmetric ==
    (C10_Case /\ "exists" \in DOMAIN C10_Assertion.v /\ ~IsNone(ExtractJson(fnIn.v.resp))) =>
      IF Truthy(C10_Assertion.v["exists"])
      THEN /\ fnOut.v.ok <=> Len(C11_Matches) > 0
           /\ ~fnOut.v.ok =>
                C11_ErrNamesPath("JSON path '{path}' not found (expected to exist)")
      ELSE /\ fnOut.v.ok <=> Len(C11_Matches) = 0
           /\ ~fnOut.v.ok =>
                C11_ErrNames("JSON path '{path}' expected to be absent but found {matches!r}",
                             None)

\* exists: false on a path that has a match: the assertion failed
C12_Witness ==
    /\ C10_Case
    /\ "exists" \in DOMAIN C10_Assertion.v
    /\ ~Truthy(C10_Assertion.v["exists"])
    /\ ~IsNone(ExtractJson(fnIn.v.resp))
    /\ Len(C11_Matches) > 0
    /\ ~fnOut.v.ok

\* the matched value m contains expected: as a member when m is a list, as a
\* key or a value when m is a dict, by equality when m is a scalar
C13_Satisfies(m, expected) ==
    IF m.t = "list" THEN \E i \in 1..Len(m.v) : PyEq(m.v[i], expected)
    ELSE IF m.t = "dict"
    THEN \/ \E k \in DOMAIN m.v : PyEq(S(<<k>>), expected)
         \/ \E k \in DOMAIN m.v : PyEq(m.v[k], expected)
    ELSE PyEq(m, expected)

\* C13 (as claimed): contains passes iff its path has at least one match and
\* some matched value contains the expected value; it fails when the path has
\* no match or no matched value contains it, with a message naming the path
\* (and, when there are matches, the expected value and the matched values).
C13_ContainsMembership ==
    C11_CaseOf("contains") =>
      /\ fnOut.v.ok <=>
           \E i \in 1..Len(C11_Matches) :
             C13_Satisfies(C11_Matches[i], C10_Assertion.v["contains"])
      /\ (~fnOut.v.ok /\ Len(C11_Matches) = 0) =>
           C11_ErrNamesPath("JSON path '{path}' not found (contains asserted)")
      /\ (~fnOut.v.ok /\ Len(C11_Matches) > 0) =>
           C11_ErrNames("JSON path '{path}' does not contain {expected!r}; values: {matches!r}",
                        C10_Assertion.v["contains"])

---------------------------------------------------------------------------
(* Properties of _substitute_response_placeholders *)

\* the reference designates no response, or (for a jsonpath reference) a
\* response whose body is not JSON, a path that is invalid or matches nothing
C7_UnresolvedIn(r, resp) ==
    \/ IsNone(resp)
    \/ /\ r.kind = "jsonpath"
       /\ \/ IsNone(ExtractJson(resp))
          \/ ~JsonpathParse(S(r.path)).ok
          \/ Len(JsonpathFind(JsonpathParse(S(r.path)).sel, ExtractJson(resp))) = 0

C7_Unresolved(r) == C7_UnresolvedIn(r, ResolveRespRef(r.ref, CurrentCtx))

C7_Template == SubstTemplates[fnIn.v.template]

\* a token sequence starts with another
StartsWith(toks, prefix) ==
    Len(toks) >= Len(prefix) /\ SubSeq(toks, 1, Len(prefix)) = prefix

C7_BodyOut == Get(Get(fnOut.v.step, "action", EmptyDict), "body", EmptyDict)

\* C7: dynamic substitution never fails.  Whatever the step and the context,
\* _substitute_response_placeholders returns a step of the same shape and the
\* request is built and sent with it; a reference that does not resolve
\* (response missing, body not JSON, path invalid or without a match) leaves
\* its original text in place.
C7_UnresolvedReferenceStaysLiteral ==
    fnOut.t = "substituted" =>
      /\ fnOut.v.step.t = "dict"
      /\ DOMAIN C7_BodyOut.v = {"v", "w"}
      /\ fnOut.v.call.sent /\ ~fnOut.v.call.raised
      /\ Same(fnOut.v.call.request.json, C7_BodyOut)
      /\ (\A i \in 1..Len(C7_Template.refs) : C7_Unresolved(C7_Template.refs[i])) =>
           /\ Same(fnOut.v.step, fnIn.v.step)
           /\ Same(fnOut.v.call.request.url, S(<<"/", "x", "/">> \o C7_Template.text))
      /\ (Len(C7_Template.refs) > 0 /\ C7_Unresolved(C7_Template.refs[1])) =>
           /\ fnOut.v.call.request.url.t = "str"
           /\ StartsWith(fnOut.v.call.request.url.v,
                         <<"/", "x", "/">> \o SubSeq(C7_Template.text, 1, C7_Template.lead))

\* under a context of two responses, a string with a reference to a response
\* that is not there and a reference that resolves went out with the first
\* reference as written
C7_Witness ==
    /\ fnOut.t = "substituted"
    /\ Len(responses_list) = 2
    /\ fnIn.v.template = 12
    /\ fnOut.v.call.sent
    /\ ~Same(fnOut.v.step, fnIn.v.step)

\* the one reference of the template, when it is a jsonpath reference
C15_Ref == C7_Template.refs[1]

\* the response the reference designates
C15_Resp == ResolveRespRef(C15_Ref.ref, CurrentCtx)

\* the matches of the reference's path in the body of that response
C15_Matches ==
    JsonpathFind(JsonpathParse(S(C15_Ref.path)).sel, ExtractJson(C15_Resp))

\* the reference resolves: it designates a recorded response that counts as
\* true (status below 400), whose body is JSON and has a match for the path
C15_Resolves ==
    /\ fnOut.t = "substituted"
    /\ Len(C7_Template.refs) = 1
    /\ C15_Ref.kind = "jsonpath"
    /\ ~C7_Unresolved(C15_Ref)
    /\ IsTrue(C15_Resp)

\* the string form of the matches joined with commas
C15_Joined ==
    JoinWith([k \in 1..Len(C15_Matches) |-> PyStr(C15_Matches[k])], <<",">>)

\* the text of the template with the reference replaced by the joined matches
C15_Embedded ==
    SubSeq(C7_Template.text, 1,
           C7_Template.lead - Len(RefJsonpath(C15_Ref.ref, C15_Ref.path)))
    \o C15_Joined
    \o SubSeq(C7_Template.text, C7_Template.lead + 1, Len(C7_Template.text))

---------------------------------------------------------------------------
(* Properties of load_scenarios and _substitute_in_obj *)

C14_Config == fnIn.v.config
C14_Parts == StaticTemplates[fnIn.v.template]

\* the key is one of the config
C14_Known(name) == Truthy(C14_Config) /\ name \in DOMAIN C14_Config.v

\* the text of the parts with each known key replaced by the string form of
\* its value
RECURSIVE C14_Rendered(_)
C14_Rendered(parts) ==
    IF parts = <<>> THEN <<>>
    ELSE (IF Head(parts).key /\ C14_Known(Head(parts).name)
          THEN PyStr(C14_Config.v[Head(parts).name])
          ELSE Head(parts).toks)
         \o C14_Rendered(Tail(parts))

\* what the claim gives for a string leaf
C14_LeafExpected(parts) ==
    IF Len(parts) = 1 /\ parts[1].key
    THEN (IF C14_Known(parts[1].name) THEN C14_Config.v[parts[1].name]
          ELSE S(TextOf(parts)))
    ELSE S(C14_Rendered(parts))

C14_ScenarioOut == fnOut.v.data.v["scenarios"].v[1]
C14_ActionOut == C14_ScenarioOut.v["steps"].v[1].v["action"]
C14_ActionIn == fnIn.v.parsed.v["scenarios"].v[1].v["steps"].v[1].v["action"]

\* C14: static substitution is type-preserving only on exact match.  A string
\* leaf that is exactly one placeholder $key with key in the config becomes
\* the config value itself, with its type; any other string leaf becomes the
\* string in which each known key is replaced by the string form of its value
\* and each unknown key is left as written; with an empty or absent config the
\* document is unchanged; leaves that are not strings and mapping keys are
\* never changed.
C14_StaticSubstitution ==
    (fnOut.t = "loaded" /\ fnIn.v.template > 0) =>
      /\ ~fnOut.v.raised
      /\ Same(C14_ScenarioOut.v["name"], C14_LeafExpected(C14_Parts))
      /\ Same(C14_ActionOut.v["url"], C14_LeafExpected(C14_Parts))
      /\ Same(C14_ActionOut.v["headers"], L(<<C14_LeafExpected(C14_Parts), I(1)>>))
      /\ (Len(C14_Parts) > 1 \/ ~C14_Parts[1].key) => C14_ActionOut.v["url"].t = "str"
      /\ DOMAIN C14_ActionOut.v = DOMAIN C14_ActionIn.v
      /\ \A k \in {"timeout", "verify", "cert", "$X"} :
           Same(C14_ActionOut.v[k], C14_ActionIn.v[k])
      /\ ~Truthy(C14_Config) => Same(fnOut.v.data, fnIn.v.parsed)

\* a string that is exactly $W became the list the config has for W
C14_Witness ==
    /\ fnOut.t = "loaded"
    /\ fnIn.v.template = 3
    /\ C14_ActionOut.v["url"].t = "list"
    /\ Len(C14_ActionOut.v["url"].v) = 2

\* the template's placeholders are the heads of response references only
C21_OnlyReferences ==
    /\ fnIn.v.template > 0
    /\ \E p \in 1..Len(C14_Parts) : C14_Parts[p].key
    /\ \A p \in 1..Len(C14_Parts) : C14_Parts[p].key => C14_Parts[p].name = "resp"

\* a context in which the references resolve: step 1, login, answered 200
C21_Ctx == ContextAfter(<<1>>, 1)

\* the step of a loaded document as the dynamic pass leaves it
C21_Dynamic(data) ==
    SubstituteResponsePlaceholders(data.v["scenarios"].v[1].v["steps"].v[1], C21_Ctx)

\* C21: the two substitution passes are independent.  Whatever keys the
\* config has, load_scenarios leaves every $resp[<ref>].status,
\* $resp[<ref>].text and $resp[<ref>].jsonpath(<expr>) reference of the
\* scenario textually intact, and the dynamic pass resolves on the loaded
\* scenario what it resolves on the scenario loaded without a config.
C21_PassesIndependent ==
    (fnOut.t = "loaded" /\ C21_OnlyReferences) =>
      /\ ~fnOut.v.raised
      /\ Same(C14_ScenarioOut.v["name"], S(TextOf(C14_Parts)))
      /\ Same(C14_ActionOut.v["url"], S(TextOf(C14_Parts)))
      /\ Same(C14_ActionOut.v["headers"], L(<<S(TextOf(C14_Parts)), I(1)>>))
      /\ Same(C21_Dynamic(fnOut.v.data), C21_Dynamic(fnIn.v.parsed))

---------------------------------------------------------------------------
(* Properties of the command-line run *)

\* C17: run-level outcome.  The run executes every scenario once, in order,
\* whatever the earlier outcomes, and passed + failed = total; once the
\* scenarios have been run the process exits with 0 when no scenario failed
\* and with 2 when at least one failed, also when a JSON or HTML report was
\* requested; exit code 3 occurs only for a fatal error before any scenario
\* could run.
C17_RunLevelOutcome ==
    (runner = "__main__" /\ fnOut.t = "main") =>
      LET m == fnOut.v IN
        /\ m.ran = [k \in 1..Len(m.ran) |-> k]
        /\ m.passed + m.failed = Len(m.ran)
        /\ (m.loaded /\ m.pc # "loop") => Len(m.ran) = m.total
        /\ m.pc = "exited" =>
             /\ m.loaded => m.exit_code = IF m.failed = 0 THEN 0 ELSE 2
             /\ m.exit_code = 3 => ~m.loaded

---------------------------------------------------------------------------
(* Properties of execute_api_call *)

\* the methods of RequestMethods in uppercase, GET for an absent or empty one
C18_MethodExpected ==
    <<<<"GET">>, <<"GET">>, <<"GET">>, <<"GET">>, <<"GET">>, <<"POST">>, <<"POST">>>>

\* the action has a url: the key is there with a non-empty string
C18_HasUrl == RequestUrls[fnIn.v.u].has /\ RequestUrls[fnIn.v.u].v.t = "str"
              /\ Len(RequestUrls[fnIn.v.u].v.v) > 0

\* the body is not null: the key is there with a value other than None
C18_HasBody == RequestBodies[fnIn.v.b].has /\ RequestBodies[fnIn.v.b].v.t # "none"

\* C18: request building.  For an action with a url, execute_api_call issues
\* one transport request whose method is the action's method in uppercase
\* (GET when the method is absent or empty), whose url is the action's url and
\* which carries the body as json payload exactly when the body is not null;
\* for an action without a url it raises the configuration error and issues
\* no transport request.
C18_RequestBuilding ==
    (runner = "execute_api_call" /\ fnOut.t = "call") =>
      LET c == fnOut.v.call IN
        IF C18_HasUrl
        THEN /\ c.sent
             /\ c.request.method = C18_MethodExpected[fnIn.v.m]
             /\ Same(c.request.url, RequestUrls[fnIn.v.u].v)
             /\ c.request.has_json <=> C18_HasBody
             /\ C18_HasBody => Same(c.request.json, RequestBodies[fnIn.v.b].v)
             /\ c.raised <=> Transports[fnOut.v.transport].raise
        ELSE /\ c.raised
             /\ c.exc = "Missing URL in action"
             /\ ~c.sent

\* a lowercase method, a url and a body that is false but not null: sent as
\* POST with the json payload
C18_Witness ==
    /\ runner = "execute_api_call"
    /\ fnOut.t = "call"
    /\ fnIn.v.m = 6
    /\ C18_HasUrl
    /\ Same(RequestBodies[fnIn.v.b].v, I(0))
    /\ fnOut.v.call.sent
    /\ fnOut.v.call.request.method = <<"POST">>
    /\ fnOut.v.call.request.has_json

=============================================================================
